---- MODULE Spec2Model ----
(***************************************************************************)
(* A model of the rlox bytecode back end (rlox-compiler): the OpCode       *)
(* encoding, the Chunk, the Compiler and the VM.                           *)
(*                                                                         *)
(*   SpecOp     one OpCode value is encoded and the bytes decoded again    *)
(*   SpecChunk  a Chunk driven through add / patch                         *)
(*   SpecPool   a Chunk's constant pool driven to its capacity             *)
(*   SpecRun    a program is compiled into a Chunk, which the VM then runs *)
(***************************************************************************)
EXTENDS Integers, Sequences, FiniteSets, TLC

VARIABLES
    pc,         \* position of the driver of the specification at hand
    op,         \* SpecOp: the OpCode value under test
    bytes,      \* SpecOp: op.encode(); SpecDecode: the slice handed to decode
    decoded,    \* SpecOp: OpCode::decode(bytes)
    chunk,      \* Chunk { code, lines, constants }
    adds,       \* history: what add (SpecChunk) or the pool (SpecPool) accepted, in order
    call,       \* the last call made on the chunk, with its outcome
    seed,       \* SpecPool: selects the stream of values offered to the pool
    program,    \* SpecRun: the statements handed to Compiler.compile
    compiler,   \* Compiler { locals, scope_depth } and the result of compile
    vm,         \* VM { ip, stack, globals }, the output written, and the result of run
    scanner,    \* ScannerIterator { source, start, current, line } and what next returned
    interp      \* Interpreter { environment } over the Environments allocated

vars ==
    <<pc, op, bytes, decoded, chunk, adds, call, seed, program, compiler, vm, scanner, interp>>

(***************************************************************************)
(* Integer widths.                                                         *)
(***************************************************************************)
\* `let x = value;` followed by the statements rest(x)
Bind(value, rest(_)) == rest(value)

U8 == 0..255

I16 == -32768..32767

\* to_be_bytes gone wrong: the least significant byte first
to_le_bytes(d) ==
    LET u == d % 65536 IN <<u % 256, u \div 256>>

\* i16::to_be_bytes: two's complement, most significant byte first
to_be_bytes(d) ==
    LET u == d % 65536 IN <<u \div 256, u % 256>>

\* i16::from_be_bytes
from_be_bytes(hi, lo) ==
    LET u == hi * 256 + lo IN IF u >= 32768 THEN u - 65536 ELSE u

\* `x as i16` for a usize x: the low 16 bits, read as two's complement
as_i16(x) ==
    LET u == x % 65536 IN IF u >= 32768 THEN u - 65536 ELSE u

\* i16 negation; -(-32768) overflows and wraps to -32768 when unchecked
neg_i16(d) == as_i16(0 - d)

(***************************************************************************)
(* op.rs: the instruction tags.                                            *)
(***************************************************************************)
OP_CONSTANT == 0
OP_TRUE == OP_CONSTANT + 1
OP_FALSE == OP_TRUE + 1
OP_NIL == OP_FALSE + 1
OP_POP == OP_NIL + 1
OP_GET_LOCAL == OP_POP + 1
OP_SET_LOCAL == OP_GET_LOCAL + 1
OP_GET_GLOBAL == OP_SET_LOCAL + 1
OP_DEFINE_GLOBAL == OP_GET_GLOBAL + 1
OP_SET_GLOBAL == OP_DEFINE_GLOBAL + 1
OP_EQUAL == OP_SET_GLOBAL + 1
OP_GREATER == OP_EQUAL + 1
OP_LESS == OP_GREATER + 1
OP_ADD == OP_LESS + 1
OP_SUBTRACT == OP_ADD + 1
OP_MULTIPLY == OP_SUBTRACT + 1
OP_DIVIDE == OP_MULTIPLY + 1
OP_NOT == OP_DIVIDE + 1
OP_NEGATE == OP_NOT + 1
OP_PRINT == OP_NEGATE + 1
OP_JUMP == OP_PRINT + 1
OP_JUMP_IF_FALSE == OP_JUMP + 1
OP_RETURN == OP_JUMP_IF_FALSE + 1

\* enum OpCode: a variant name and its operand (0 for the variants without one)
Op(name, arg) == [name |-> name, arg |-> arg]

ByteOperandOps == {"Constant", "GetLocal", "SetLocal", "GetGlobal", "DefineGlobal", "SetGlobal"}

JumpOps == {"Jump", "JumpIfFalse"}

PlainOps == {"True", "False", "Nil", "Pop", "Equal", "Greater", "Less", "Add", "Subtract",
             "Multiply", "Divide", "Not", "Negate", "Print", "Return"}

\* every value of the enum
OpCode ==
    {Op(n, a) : n \in ByteOperandOps, a \in U8}
        \cup {Op(n, d) : n \in JumpOps, d \in I16}
        \cup {Op(n, 0) : n \in PlainOps}
        \cup {Op("Unknown", b) : b \in U8}

\* the tag byte each variant but Unknown is encoded with
TagOf(name) ==
    CASE name = "Constant" -> OP_CONSTANT
      [] name = "True" -> OP_TRUE
      [] name = "False" -> OP_FALSE
      [] name = "Nil" -> OP_NIL
      [] name = "Pop" -> OP_POP
      [] name = "GetLocal" -> OP_GET_LOCAL
      [] name = "SetLocal" -> OP_SET_LOCAL
      [] name = "GetGlobal" -> OP_GET_GLOBAL
      [] name = "DefineGlobal" -> OP_DEFINE_GLOBAL
      [] name = "SetGlobal" -> OP_SET_GLOBAL
      [] name = "Equal" -> OP_EQUAL
      [] name = "Greater" -> OP_GREATER
      [] name = "Less" -> OP_LESS
      [] name = "Add" -> OP_ADD
      [] name = "Subtract" -> OP_SUBTRACT
      [] name = "Multiply" -> OP_MULTIPLY
      [] name = "Divide" -> OP_DIVIDE
      [] name = "Not" -> OP_NOT
      [] name = "Negate" -> OP_NEGATE
      [] name = "Print" -> OP_PRINT
      [] name = "Jump" -> OP_JUMP
      [] name = "JumpIfFalse" -> OP_JUMP_IF_FALSE
      [] name = "Return" -> OP_RETURN

\* the variant a tag byte selects in decode's match
NameOf(tag) ==
    CHOOSE n \in ByteOperandOps \cup JumpOps \cup PlainOps : TagOf(n) = tag

\* OpCode::byte_length
byte_length(o) ==
    CASE o.name \in ByteOperandOps -> 2
      [] o.name \in JumpOps -> 3
      [] OTHER -> 1

\* OpCode::encode
encode(o) ==
    CASE o.name \in ByteOperandOps -> <<TagOf(o.name), o.arg>>
      [] o.name \in JumpOps -> <<TagOf(o.name)>> \o to_be_bytes(o.arg)
      [] o.name = "Unknown" -> <<o.arg>>
      [] OTHER -> <<TagOf(o.name)>>

\* Result<(OpCode, usize), DecodeError>
DecodeOk(o, len) == [ok |-> TRUE, op |-> o, len |-> len, err |-> "", at |-> 0]

DecodeErr(e, at) == [ok |-> FALSE, op |-> Op("Unknown", 0), len |-> 0, err |-> e, at |-> at]

\* macro constant_op!
constant_op(name, bs) ==
    IF Len(bs) < 2 THEN DecodeErr("UnexpectedEOF", 1) ELSE DecodeOk(Op(name, bs[2]), 2)

\* macro jump_op!
jump_op(name, bs) ==
    IF Len(bs) < 3 THEN DecodeErr("UnexpectedEOF", 1)
    ELSE DecodeOk(Op(name, from_be_bytes(bs[2], bs[3])), 3)

\* OpCode::decode
decode(bs) ==
    IF Len(bs) = 0 THEN DecodeErr("EOF", 0)
    ELSE IF bs[1] > OP_RETURN THEN DecodeOk(Op("Unknown", bs[1]), 1)
    ELSE IF NameOf(bs[1]) \in ByteOperandOps THEN constant_op(NameOf(bs[1]), bs)
    ELSE IF NameOf(bs[1]) \in JumpOps THEN jump_op(NameOf(bs[1]), bs)
    ELSE DecodeOk(Op(NameOf(bs[1]), 0), 1)

(***************************************************************************)
(* value.rs: enum Value { Nil, Boolean, Number, Object(String) }.          *)
(* A String object is held by its contents.  A Number is an f64, held as   *)
(* the fraction n/d in lowest terms with d > 0, or as one of               *)
(*   n = 0, d = -1   negative zero        n = 1, d = 0    +infinity        *)
(*   n = 0, d = 0    NaN                  n = -1, d = 0   -infinity        *)
(* Arithmetic on fractions is exact: rounding, overflow to infinity and    *)
(* underflow are left out, so the operators below are f64 arithmetic on    *)
(* the values f64 holds exactly and whose results it holds exactly.        *)
(***************************************************************************)
Nil == [t |-> "Nil"]

Boolean(b) == [t |-> "Boolean", b |-> b]

Float(n, d) == [t |-> "Number", n |-> n, d |-> d]

\* Value::Number of an integer
Number(n) == Float(n, 1)

RECURSIVE GCD(_, _)
GCD(a, b) == IF b = 0 THEN a ELSE GCD(b, a % b)

\* the f64 n/d for n # 0 and d # 0
Ratio(n, d) ==
    Bind(GCD(IF n < 0 THEN 0 - n ELSE n, IF d < 0 THEN 0 - d ELSE d), LAMBDA g :
        IF d < 0 THEN Float((0 - n) \div g, (0 - d) \div g) ELSE Float(n \div g, d \div g))

IsNaN(x) == x.n = 0 /\ x.d = 0

\* the sign bit of an f64 that is not NaN
SignBit(x) == x.n < 0 \/ (x.n = 0 /\ x.d < 0)

\* f64 negation
f64_neg(x) == IF x.n = 0 THEN Float(0, 0 - x.d) ELSE Float(0 - x.n, x.d)

\* f64 addition
f64_add(x, y) ==
    IF IsNaN(x) \/ IsNaN(y) \/ (x.d = 0 /\ y.d = 0 /\ x.n # y.n) THEN Float(0, 0)
    ELSE IF x.d = 0 THEN x
    ELSE IF y.d = 0 THEN y
    ELSE IF x.n = 0 /\ y.n = 0 THEN Float(0, IF SignBit(x) /\ SignBit(y) THEN -1 ELSE 1)
    ELSE IF x.n = 0 THEN y
    ELSE IF y.n = 0 THEN x
    ELSE IF x.n * y.d + y.n * x.d = 0 THEN Float(0, 1)
    ELSE Ratio(x.n * y.d + y.n * x.d, x.d * y.d)

\* f64 multiplication
f64_mul(x, y) ==
    IF IsNaN(x) \/ IsNaN(y) \/ (x.d = 0 /\ y.n = 0) \/ (x.n = 0 /\ y.d = 0) THEN Float(0, 0)
    ELSE IF x.d = 0 \/ y.d = 0 THEN Float(IF SignBit(x) # SignBit(y) THEN -1 ELSE 1, 0)
    ELSE IF x.n = 0 \/ y.n = 0 THEN Float(0, IF SignBit(x) # SignBit(y) THEN -1 ELSE 1)
    ELSE Ratio(x.n * y.n, x.d * y.d)

\* f64 division: a zero divisor gives an infinity or NaN, never an error
f64_div(x, y) ==
    IF IsNaN(x) \/ IsNaN(y) \/ (x.d = 0 /\ y.d = 0) \/ (x.n = 0 /\ y.n = 0) THEN Float(0, 0)
    ELSE IF x.d = 0 \/ y.n = 0 THEN Float(IF SignBit(x) # SignBit(y) THEN -1 ELSE 1, 0)
    ELSE IF y.d = 0 \/ x.n = 0 THEN Float(0, IF SignBit(x) # SignBit(y) THEN -1 ELSE 1)
    ELSE Ratio(x.n * y.d, x.d * y.n)

\* f64 `<`: false when either side is NaN; the two zeros are equal
f64_lt(x, y) ==
    IF IsNaN(x) \/ IsNaN(y) THEN FALSE
    ELSE IF x.d = 0 THEN x.n < 0 /\ ~(y.d = 0 /\ y.n < 0)
    ELSE IF y.d = 0 THEN y.n > 0
    ELSE x.n * (IF y.d < 0 THEN 1 ELSE y.d) < y.n * (IF x.d < 0 THEN 1 ELSE x.d)

\* f64 `==`: false when either side is NaN; the two zeros are equal
f64_eq(x, y) ==
    /\ ~IsNaN(x)
    /\ ~IsNaN(y)
    /\ x.n = y.n
    /\ (x.d = y.d \/ (x.n = 0 /\ x.d # 0 /\ y.d # 0))

\* the digits after the decimal point of r/d, at most k of them
RECURSIVE Digits(_, _, _)
Digits(r, d, k) ==
    IF r = 0 \/ k = 0 THEN ""
    ELSE ToString((r * 10) \div d) \o Digits((r * 10) % d, d, k - 1)

\* Display for f64
f64_to_string(x) ==
    IF x.d = 0 THEN (IF x.n = 0 THEN "NaN" ELSE IF x.n < 0 THEN "-inf" ELSE "inf")
    ELSE IF x.d = -1 THEN "-0"
    ELSE IF x.d = 1 THEN ToString(x.n)
    ELSE IF x.n < 0
    THEN "-" \o ToString((0 - x.n) \div x.d) \o "." \o Digits((0 - x.n) % x.d, x.d, 16)
    ELSE ToString(x.n \div x.d) \o "." \o Digits(x.n % x.d, x.d, 16)

\* Value::new_string
new_string(s) == [t |-> "String", s |-> s]

(***************************************************************************)
(* chunk.rs                                                                *)
(***************************************************************************)
\* Chunk::add_constant fails once the pool holds this many values
MaxConstants == 255

\* Chunk::new
EmptyChunk == [code |-> <<>>, lines |-> <<>>, constants |-> <<>>]

ChunkReference(offset, length) == [offset |-> offset, length |-> length]

\* Chunk::len
chunk_len(c) == Len(c.code)

\* add_constant gone wrong: the capacity test lets one value too many in
add_constant_off_by_one(c, value) ==
    IF Len(c.constants) > MaxConstants
    THEN [ok |-> FALSE, index |-> 0, chunk |-> c]
    ELSE [ok |-> TRUE,
          index |-> ((Len(c.constants) + 1) - 1) % 256,
          chunk |-> [c EXCEPT !.constants = Append(@, value)]]

\* Chunk::add_constant: Result<u8, String> and the chunk afterwards
add_constant(c, value) ==
    IF Len(c.constants) >= MaxConstants
    THEN [ok |-> FALSE, index |-> 0, chunk |-> c]
    ELSE [ok |-> TRUE,
          index |-> ((Len(c.constants) + 1) - 1) % 256,
          chunk |-> [c EXCEPT !.constants = Append(@, value)]]

\* add gone wrong: the line is not recorded
add_without_line(c, o, line) ==
    LET bs == encode(o)
        offset == Len(c.code)
    IN [ref |-> ChunkReference(offset, Len(bs)),
        chunk |-> [c EXCEPT !.code = @ \o bs]]

\* Chunk::add: the ChunkReference returned and the chunk afterwards
add(c, o, line) ==
    LET bs == encode(o)
        offset == Len(c.code)
    IN [ref |-> ChunkReference(offset, Len(bs)),
        chunk |-> [c EXCEPT !.lines = (offset :> line) @@ @, !.code = @ \o bs]]

\* patch gone wrong: the length comparison is missing
patch_unchecked(c, location, o) ==
    LET patch_bytes == encode(o) IN
    [panic |-> FALSE,
     chunk |-> [c EXCEPT !.code =
                   [i \in 1..Len(@) |->
                       IF i - 1 >= location.offset /\ i - 1 < location.offset + Len(patch_bytes)
                       THEN patch_bytes[i - location.offset]
                       ELSE @[i]]]]

\* patch gone wrong: the bytes are written one place too far
patch_one_byte_late(c, location, o) ==
    LET patch_bytes == encode(o) IN
    IF Len(patch_bytes) # location.length
    THEN [panic |-> TRUE, chunk |-> c]
    ELSE [panic |-> FALSE,
          chunk |-> [c EXCEPT !.code =
                        [i \in 1..Len(@) |->
                            IF i - 1 > location.offset /\ i - 1 <= location.offset + Len(patch_bytes)
                            THEN patch_bytes[i - 1 - location.offset]
                            ELSE @[i]]]]

\* Chunk::patch: whether it panicked and the chunk afterwards
patch(c, location, o) ==
    LET patch_bytes == encode(o) IN
    IF Len(patch_bytes) # location.length
    THEN [panic |-> TRUE, chunk |-> c]
    ELSE [panic |-> FALSE,
          chunk |-> [c EXCEPT !.code =
                        [i \in 1..Len(@) |->
                            IF i - 1 >= location.offset /\ i - 1 < location.offset + Len(patch_bytes)
                            THEN patch_bytes[i - location.offset]
                            ELSE @[i]]]]

\* Chunk::decode gone wrong: the consumed length is returned as it is
chunk_decode_relative(c, offset) ==
    IF offset >= Len(c.code) THEN DecodeErr("EOF", 0)
    ELSE decode(SubSeq(c.code, offset + 1, Len(c.code)))

\* Chunk::decode: the opcode at offset and the offset of the next instruction
chunk_decode(c, offset) ==
    IF offset >= Len(c.code) THEN DecodeErr("EOF", 0)
    ELSE LET r == decode(SubSeq(c.code, offset + 1, Len(c.code)))
         IN IF r.ok THEN DecodeOk(r.op, offset + r.len) ELSE r

\* Chunk::constant
constant(c, index) ==
    LET len == Len(c.constants) % 256 IN
    IF index >= len THEN [ok |-> FALSE, value |-> Nil]
    ELSE [ok |-> TRUE, value |-> c.constants[index + 1]]

\* line gone wrong: no walk back to the nearest recorded offset
line_exact(c, offset) ==
    IF offset \in DOMAIN c.lines THEN c.lines[offset] ELSE 0

\* Chunk::line
RECURSIVE line(_, _)
line(c, offset) ==
    IF offset > 0
    THEN IF offset \in DOMAIN c.lines THEN c.lines[offset] ELSE line(c, offset - 1)
    ELSE IF 0 \in DOMAIN c.lines THEN c.lines[0] ELSE 0

(***************************************************************************)
(* The AST the parser hands to the compiler (rlox-parser: Stmt, Expr).     *)
(* A node carries its kind k and the fields of its variant; kids are the   *)
(* boxed sub-nodes in declaration order, an absent Option being no kid.    *)
(***************************************************************************)
SBlock(stmts) == [k |-> "Stmt::Block", kids |-> stmts]

SExpression(e) == [k |-> "Stmt::Expression", kids |-> <<e>>]

SIf(cond, then) == [k |-> "Stmt::If", kids |-> <<cond, then>>]

SIfElse(cond, then, else) == [k |-> "Stmt::If", kids |-> <<cond, then, else>>]

SPrint(e) == [k |-> "Stmt::Print", kids |-> <<e>>]

SVarNil(name, ln) == [k |-> "Stmt::Var", name |-> name, line |-> ln, kids |-> <<>>]

SVar(name, ln, e) == [k |-> "Stmt::Var", name |-> name, line |-> ln, kids |-> <<e>>]

SWhile(cond, body) == [k |-> "Stmt::While", kids |-> <<cond, body>>]

EAssign(name, ln, e) == [k |-> "Expr::Assign", name |-> name, line |-> ln, kids |-> <<e>>]

EBinary(l, tok, ln, r) == [k |-> "Expr::Binary", tok |-> tok, line |-> ln, kids |-> <<l, r>>]

ELogical(l, tok, ln, r) == [k |-> "Expr::Logical", tok |-> tok, line |-> ln, kids |-> <<l, r>>]

EUnary(tok, ln, e) == [k |-> "Expr::Unary", tok |-> tok, line |-> ln, kids |-> <<e>>]

EGrouping(e) == [k |-> "Expr::Grouping", kids |-> <<e>>]

EVar(name, ln) == [k |-> "Expr::Var", name |-> name, line |-> ln, kids |-> <<>>]

EString(ln, str) == [k |-> "Expr::String", str |-> str, line |-> ln, kids |-> <<>>]

ENumber(ln, n) == [k |-> "Expr::Number", num |-> n, line |-> ln, kids |-> <<>>]

EBoolean(ln, b) == [k |-> "Expr::Boolean", bool |-> b, line |-> ln, kids |-> <<>>]

ENil(ln) == [k |-> "Expr::Nil", line |-> ln, kids |-> <<>>]

(***************************************************************************)
(* compiler.rs.  A compiler value cs is Compiler { chunk, locals,          *)
(* scope_depth } together with err: "" while every call so far returned    *)
(* Ok, else the CompilerError (or "panic") that ended the compilation,     *)
(* after which every operation returns cs as it is (the `?` operator).     *)
(* overflow_checks tells whether the build panics on integer overflow.     *)
(***************************************************************************)
\* std::u8::MAX, the limit on live locals and on scope_depth
U8Max == 255

\* What the compilation has done so far, kept beside the compiler to state
\* properties with; it influences nothing the compiler does.
\*   blocks      the code range [start, end) of every Block compiled
\*   declared    the names declared at scope depth 0
\*   redeclared  the Var statements met whose name was already declared at the
\*               same scope depth, as <<name, scope_depth, number of live locals>>
\*   next_id     the number of local declarations so far; a local's id
\*   decl_at     offset of the code following a local's initializer -> the local's id
\*   refs        offset of each GetLocal / SetLocal emitted -> the local it was
\*               resolved to, and whether that is the innermost live one of its name
\*   emitted     offset of each instruction added outside jump and jump_loop -> its
\*               opcode and the line the compiler passed for it
\*   shadowing   ids of the locals declared while a variable of the same name was
\*               declared in an enclosing scope, and of the locals so shadowed
\*   jumps       offset of each jump emitted and resolved -> the offset it is to reach
NoHistory ==
    [blocks |-> {}, declared |-> {}, redeclared |-> <<>>, next_id |-> 0,
     decl_at |-> <<>>, refs |-> <<>>, shadowing |-> {}, jumps |-> <<>>,
     emitted |-> <<>>, ifs |-> <<>>, slots |-> <<>>, loops |-> <<>>,
     logicals |-> <<>>, enclosing |-> 0, points |-> {}]

\* Compiler::new
NewCompiler(c) ==
    [chunk |-> c, locals |-> <<>>, scope_depth |-> 0, err |-> "", name |-> "",
     overflow_checks |-> FALSE, hist |-> NoHistory]

Fail(cs, e, name) == [cs EXCEPT !.err = e, !.name = name]

\* self.chunk.add(o, ln), the reference dropped
Emit(cs, o, ln) ==
    IF cs.err # "" THEN cs
    ELSE [cs EXCEPT !.chunk = add(@, o, ln).chunk,
                    !.hist.emitted = (chunk_len(cs.chunk) :> [op |-> o.name, line |-> ln]) @@ @]

\* Compiler::add_string: the constant index in .index
add_string(cs, str) ==
    LET r == add_constant(cs.chunk, new_string(str)) IN
    IF cs.err # "" THEN [cs |-> cs, index |-> 0]
    ELSE IF ~r.ok THEN [cs |-> Fail(cs, "TooManyConstants", ""), index |-> 0]
    ELSE [cs |-> [cs EXCEPT !.chunk = r.chunk], index |-> r.index]

\* Compiler::jump: emits the placeholder Jump(0) and returns a JumpPatchReference
jump(cs, op_factory) ==
    LET offset == chunk_len(cs.chunk)
        r == add(cs.chunk, Op("Jump", 0), 0)
    IN [cs |-> IF cs.err # "" THEN cs ELSE [cs EXCEPT !.chunk = r.chunk],
        ref |-> [chunk_ref |-> r.ref, offset |-> offset, op_factory |-> op_factory]]

\* resolve_jump gone wrong: the patch is a Jump whatever variant was recorded
resolve_jump_unconditional(cs, jmp) ==
    LET offset == chunk_len(cs.chunk) - jmp.offset
        r == patch(cs.chunk, jmp.chunk_ref, Op("Jump", as_i16(offset)))
    IN IF cs.err # "" THEN cs
       ELSE IF r.panic THEN Fail(cs, "panic", "")
       ELSE [cs EXCEPT !.chunk = r.chunk,
                       !.hist.jumps = (jmp.offset :> chunk_len(cs.chunk)) @@ @]

\* Compiler::resolve_jump
resolve_jump(cs, jmp) ==
    LET offset == chunk_len(cs.chunk) - jmp.offset
        o == Op(jmp.op_factory, as_i16(offset))
        r == patch(cs.chunk, jmp.chunk_ref, o)
    IN IF cs.err # "" THEN cs
       ELSE IF r.panic THEN Fail(cs, "panic", "")
       ELSE [cs EXCEPT !.chunk = r.chunk,
                       !.hist.jumps = (jmp.offset :> chunk_len(cs.chunk)) @@ @]

\* Compiler::loop_start
loop_start(cs) == [offset |-> chunk_len(cs.chunk)]

\* Compiler::jump_loop; the negation of i16::MIN overflows, and then panics or wraps
\* as the build has it
jump_loop(cs, loop, op_factory) ==
    LET offset == neg_i16(as_i16(chunk_len(cs.chunk) - loop.offset))
    IN IF cs.err # "" THEN cs
       ELSE IF as_i16(chunk_len(cs.chunk) - loop.offset) = -32768 /\ cs.overflow_checks
       THEN Fail(cs, "panic", "")
       ELSE [Emit(cs, Op(op_factory, offset), 0) EXCEPT
                !.hist.jumps = (chunk_len(cs.chunk) :> loop.offset) @@ @]

\* Compiler::resolve_local: Option<u8>, the last position in locals holding name
resolve_local(locals, name) ==
    LET hits == {i \in 1..Len(locals) : locals[i].name = name} IN
    IF hits = {} THEN [some |-> FALSE, index |-> 0]
    ELSE [some |-> TRUE, index |-> ((CHOOSE i \in hits : \A j \in hits : j <= i) - 1) % 256]

\* begin_scope gone wrong: one block opens two scopes
begin_scope_by_two(cs) ==
    IF cs.err # "" THEN cs
    ELSE IF cs.scope_depth >= U8Max - 1 THEN Fail(cs, "panic", "")
    ELSE [cs EXCEPT !.scope_depth = @ + 2]

\* Compiler::begin_scope
begin_scope(cs) ==
    IF cs.err # "" THEN cs
    ELSE IF cs.scope_depth = U8Max THEN Fail(cs, "panic", "")
    ELSE [cs EXCEPT !.scope_depth = @ + 1]

\* the while loop of end_scope
RECURSIVE pop_locals(_)
pop_locals(cs) ==
    IF Len(cs.locals) # 0 /\ cs.locals[Len(cs.locals)].scope_depth > cs.scope_depth
    THEN pop_locals([Emit(cs, Op("Pop", 0), 0) EXCEPT
                        !.locals = SubSeq(@, 1, Len(@) - 1)])
    ELSE cs

\* end_scope gone wrong: the locals of the scope are left where they are
end_scope_without_pops(cs) ==
    IF cs.err # "" THEN cs
    ELSE IF cs.scope_depth = 0 THEN Fail(cs, "panic", "")
    ELSE [cs EXCEPT !.scope_depth = @ - 1]

\* Compiler::end_scope
end_scope(cs) ==
    IF cs.err # "" THEN cs
    ELSE IF cs.scope_depth = 0 THEN Fail(cs, "panic", "")
    ELSE pop_locals([cs EXCEPT !.scope_depth = @ - 1])

\* self.chunk.add(GetLocal(index) or SetLocal(index), ln) for a resolved local
EmitLocal(cs, name, local, ln) ==
    LET entry == cs.locals[local.index + 1]
        innermost == \A i \in 1..Len(cs.locals) :
                        cs.locals[i].name = entry.name =>
                            cs.locals[i].scope_depth <= entry.scope_depth
        ref == [id |-> entry.id, name |-> entry.name, index |-> local.index,
                innermost |-> innermost]
    IN [Emit(cs, Op(name, local.index), ln) EXCEPT
            !.hist.refs = (chunk_len(cs.chunk) :> ref) @@ @]

\* BinaryOps gone wrong: != is compiled as a negation of the right operand alone
BinaryOps_without_equal(tok) ==
    CASE tok = "BangEqual" -> <<Op("Not", 0)>>
      [] tok = "EqualEqual" -> <<Op("Equal", 0)>>
      [] tok = "Greater" -> <<Op("Greater", 0)>>
      [] tok = "GreaterEqual" -> <<Op("Less", 0), Op("Not", 0)>>
      [] tok = "Less" -> <<Op("Less", 0)>>
      [] tok = "LessEqual" -> <<Op("Greater", 0), Op("Not", 0)>>
      [] tok = "Plus" -> <<Op("Add", 0)>>
      [] tok = "Minus" -> <<Op("Subtract", 0)>>
      [] tok = "Star" -> <<Op("Multiply", 0)>>
      [] tok = "Slash" -> <<Op("Divide", 0)>>
      [] OTHER -> <<>>

\* the opcodes compile_expr emits for a binary operator token
BinaryOps(tok) ==
    CASE tok = "BangEqual" -> <<Op("Equal", 0), Op("Not", 0)>>
      [] tok = "EqualEqual" -> <<Op("Equal", 0)>>
      [] tok = "Greater" -> <<Op("Greater", 0)>>
      [] tok = "GreaterEqual" -> <<Op("Less", 0), Op("Not", 0)>>
      [] tok = "Less" -> <<Op("Less", 0)>>
      [] tok = "LessEqual" -> <<Op("Greater", 0), Op("Not", 0)>>
      [] tok = "Plus" -> <<Op("Add", 0)>>
      [] tok = "Minus" -> <<Op("Subtract", 0)>>
      [] tok = "Star" -> <<Op("Multiply", 0)>>
      [] tok = "Slash" -> <<Op("Divide", 0)>>
      [] OTHER -> <<>>

RECURSIVE EmitAll(_, _, _)
EmitAll(cs, ops, ln) ==
    IF ops = <<>> THEN cs ELSE EmitAll(Emit(cs, Head(ops), ln), Tail(ops), ln)

\* history only: the code from the end of cs to the end of c is that of one
\* expression or statement of the given kind
NoteCode(cs, kind, c) ==
    IF c.err # "" THEN c
    ELSE [c EXCEPT
            !.hist.blocks = @ \cup {[kind |-> kind, start |-> chunk_len(cs.chunk),
                                     end |-> chunk_len(c.chunk)]}]

\* history only: the Logical expression compiled from cs to c, its JumpIfFalse at
\* test.offset; .right is the offset of the Pop before the right operand
NoteLogical(cs, tok, test, c) ==
    IF c.err # "" THEN c
    ELSE [c EXCEPT
            !.hist.blocks = @ \cup {[kind |-> "Expr::Logical", start |-> chunk_len(cs.chunk),
                                     end |-> chunk_len(c.chunk)]},
            !.hist.logicals = (test.offset :>
                            [tok |-> tok,
                             right |-> IF tok = "Or" THEN test.offset + 6
                                       ELSE test.offset + 3,
                             end |-> chunk_len(c.chunk)]) @@ @]

\* Compiler::compile_expr
RECURSIVE compile_expr(_, _)
compile_expr(cs, e) ==
    IF cs.err # "" THEN cs
    ELSE NoteCode(cs, "Expr",
         CASE e.k = "Expr::Assign" ->
            Bind(compile_expr(cs, e.kids[1]), LAMBDA c1 :
                IF c1.err # "" THEN c1
                ELSE Bind(resolve_local(c1.locals, e.name), LAMBDA local :
                    IF local.some THEN EmitLocal(c1, "SetLocal", local, e.line)
                    ELSE Bind(add_string(c1, e.name), LAMBDA g :
                            Emit(g.cs, Op("SetGlobal", g.index), e.line))))
      [] e.k = "Expr::Binary" ->
            Bind(compile_expr(compile_expr(cs, e.kids[1]), e.kids[2]), LAMBDA c2 :
                IF c2.err # "" THEN c2
                ELSE IF BinaryOps(e.tok) = <<>> THEN Fail(c2, "panic", "")
                ELSE EmitAll(c2, BinaryOps(e.tok), e.line))
      [] e.k = "Expr::Logical" ->
            Bind(compile_expr(cs, e.kids[1]), LAMBDA c1 :
                IF c1.err # "" THEN c1
                ELSE IF e.tok = "Or" THEN
                    Bind(jump(c1, "JumpIfFalse"), LAMBDA else_jump :
                    Bind(jump(else_jump.cs, "Jump"), LAMBDA end_jump :
                        NoteLogical(cs, e.tok, else_jump.ref,
                            resolve_jump(
                                compile_expr(
                                    Emit(resolve_jump(end_jump.cs, else_jump.ref),
                                         Op("Pop", 0), e.line),
                                    e.kids[2]),
                                end_jump.ref))))
                ELSE IF e.tok = "And" THEN
                    Bind(jump(c1, "JumpIfFalse"), LAMBDA jmp :
                        NoteLogical(cs, e.tok, jmp.ref,
                            resolve_jump(
                                compile_expr(Emit(jmp.cs, Op("Pop", 0), e.line),
                                             e.kids[2]),
                                jmp.ref)))
                ELSE Fail(c1, "panic", ""))
      [] e.k = "Expr::Unary" ->
            Bind(compile_expr(cs, e.kids[1]), LAMBDA c1 :
                IF c1.err # "" THEN c1
                ELSE IF e.tok = "Bang" THEN Emit(c1, Op("Not", 0), e.line)
                ELSE IF e.tok = "Minus" THEN Emit(c1, Op("Negate", 0), e.line)
                ELSE Fail(c1, "panic", ""))
      [] e.k = "Expr::Grouping" -> compile_expr(cs, e.kids[1])
      [] e.k = "Expr::Var" ->
            Bind(resolve_local(cs.locals, e.name), LAMBDA local :
                IF local.some THEN EmitLocal(cs, "GetLocal", local, e.line)
                ELSE Bind(add_string(cs, e.name), LAMBDA g :
                        Emit(g.cs, Op("GetGlobal", g.index), e.line)))
      [] e.k = "Expr::String" ->
            Bind(add_string(cs, e.str), LAMBDA g :
                Emit(g.cs, Op("Constant", g.index), e.line))
      [] e.k = "Expr::Number" ->
            Bind(add_constant(cs.chunk, Number(e.num)), LAMBDA r :
                IF ~r.ok THEN Fail(cs, "TooManyConstants", "")
                ELSE Emit([cs EXCEPT !.chunk = r.chunk], Op("Constant", r.index), e.line))
      [] e.k = "Expr::Boolean" ->
            Emit(cs, IF e.bool THEN Op("True", 0) ELSE Op("False", 0), e.line)
      [] e.k = "Expr::Nil" -> Emit(cs, Op("Nil", 0), e.line))

\* existing_in_scope gone wrong: the depth of the earlier declaration is not compared
existing_in_any_scope(locals, scope_depth, name) ==
    \E i \in 1..Len(locals) : locals[i].name = name

\* the existing_in_scope test of the Stmt::Var arm
existing_in_scope(locals, scope_depth, name) ==
    \E i \in 1..Len(locals) :
        locals[i].scope_depth = scope_depth /\ locals[i].name = name

\* history only: a Var statement for name is about to be checked and declared
NoteDeclaration(cs, name) ==
    LET again == IF cs.scope_depth > 0
                 THEN \E i \in 1..Len(cs.locals) :
                        /\ cs.locals[i].scope_depth = cs.scope_depth
                        /\ cs.locals[i].name = name
                 ELSE name \in cs.hist.declared
    IN [cs EXCEPT
          !.hist.redeclared =
              IF again THEN Append(@, <<name, cs.scope_depth, Len(cs.locals)>>) ELSE @,
          !.hist.declared = IF cs.scope_depth = 0 THEN @ \cup {name} ELSE @]

\* history only: the local just pushed lives in the value the initializer left
\* History only: what the compiler holds once one of its methods has returned
\* (the scope depth of every local in list order, the current scope depth and
\* the number of Stmt::Block arms that are being compiled)
NotePoint(cs) ==
    IF cs.err # "" THEN cs
    ELSE [cs EXCEPT !.hist.points = @ \cup
            {[depths |-> [i \in 1..Len(cs.locals) |-> cs.locals[i].scope_depth],
              scope_depth |-> cs.scope_depth,
              enclosing |-> cs.hist.enclosing]}]

\* History only: a Stmt::Block arm is entered (by +1) or left (by -1)
NoteBlock(cs, by) ==
    NotePoint([cs EXCEPT !.hist.enclosing = @ + by])

NoteLocal(cs) ==
    LET new == cs.locals[Len(cs.locals)]
        outer == {cs.locals[i].id : i \in {j \in 1..(Len(cs.locals) - 1) :
                                                cs.locals[j].name = new.name}}
        shadows == outer # {} \/ new.name \in cs.hist.declared
    IN NotePoint([cs EXCEPT
          !.hist.next_id = @ + 1,
          !.hist.decl_at = (chunk_len(cs.chunk) :> new.id) @@ @,
          !.hist.slots = (new.id :> Len(cs.locals) - 1) @@ @,
          !.hist.shadowing = IF shadows THEN @ \cup {new.id} \cup outer ELSE @])

\* declare_local gone wrong: the count of live locals is not looked at
declare_local_unbounded(cs, name) ==
    IF existing_in_scope(cs.locals, cs.scope_depth, name)
    THEN Fail(cs, "VariableAlreadyDeclared", name)
    ELSE NoteLocal([cs EXCEPT !.locals =
            Append(@, [name |-> name, scope_depth |-> cs.scope_depth,
                       id |-> cs.hist.next_id])])

\* the local-variable half of the Stmt::Var arm
declare_local(cs, name) ==
    IF Len(cs.locals) = U8Max THEN Fail(cs, "TooManyLocals", "")
    ELSE IF existing_in_scope(cs.locals, cs.scope_depth, name)
    THEN Fail(cs, "VariableAlreadyDeclared", name)
    ELSE NoteLocal([cs EXCEPT !.locals =
            Append(@, [name |-> name, scope_depth |-> cs.scope_depth,
                       id |-> cs.hist.next_id])])

\* history only: the If statement compiled from cs to c, its JumpIfFalse at
\* false_jump.offset, and c1 the compiler once the then-branch is compiled
NoteIf(cs, false_jump, c1, c) ==
    IF c.err # "" THEN c
    ELSE [c EXCEPT
            !.hist.blocks = @ \cup {[kind |-> "Stmt::If", start |-> chunk_len(cs.chunk),
                                     end |-> chunk_len(c.chunk)]},
            !.hist.ifs = (false_jump.offset :>
                            [then |-> false_jump.offset + 3,
                             else |-> IF chunk_len(c.chunk) > chunk_len(c1.chunk)
                                      THEN chunk_len(c1.chunk) + 3
                                      ELSE chunk_len(c.chunk),
                             end |-> chunk_len(c.chunk)]) @@ @]

\* history only: the While statement compiled from cs to c, its JumpIfFalse at
\* exit_jump.offset and its backward Jump before the closing Pop
NoteWhile(cs, exit_jump, c) ==
    IF c.err # "" THEN c
    ELSE [c EXCEPT
            !.hist.blocks = @ \cup {[kind |-> "Stmt::While", start |-> chunk_len(cs.chunk),
                                     end |-> chunk_len(c.chunk)]},
            !.hist.loops = (exit_jump.offset :>
                            [start |-> chunk_len(cs.chunk),
                             body |-> exit_jump.offset + 3,
                             back |-> chunk_len(c.chunk) - 4,
                             exit |-> chunk_len(c.chunk) - 1]) @@ @]

\* Compiler::compile_stmt, and the loop over a statement list that Compiler::compile
\* and the Block arm both run
RECURSIVE compile_stmt(_, _), compile(_, _)
compile_stmt(cs, stmt) ==
    IF cs.err # "" THEN cs
    ELSE CASE stmt.k = "Stmt::Block" ->
            Bind(end_scope(compile(NoteBlock(begin_scope(cs), 1), stmt.kids)), LAMBDA c1 :
                IF c1.err # "" THEN c1
                ELSE [NoteBlock(c1, -1) EXCEPT !.hist.blocks =
                        @ \cup {[kind |-> stmt.k, start |-> chunk_len(cs.chunk),
                                 end |-> chunk_len(c1.chunk)]}])
      [] stmt.k = "Stmt::Expression" ->
            NoteCode(cs, stmt.k, Emit(compile_expr(cs, stmt.kids[1]), Op("Pop", 0), 0))
      [] stmt.k = "Stmt::If" ->
            Bind(jump(compile_expr(cs, stmt.kids[1]), "JumpIfFalse"), LAMBDA false_jump :
            Bind(compile_stmt(Emit(false_jump.cs, Op("Pop", 0), 0), stmt.kids[2]), LAMBDA c1 :
                NoteIf(cs, false_jump.ref, c1,
                    IF Len(stmt.kids) = 3 THEN
                        Bind(jump(c1, "Jump"), LAMBDA true_jump :
                            resolve_jump(
                                compile_stmt(
                                    Emit(resolve_jump(true_jump.cs, false_jump.ref),
                                         Op("Pop", 0), 0),
                                    stmt.kids[3]),
                                true_jump.ref))
                    ELSE resolve_jump(c1, false_jump.ref))))
      [] stmt.k = "Stmt::Print" ->
            Emit(compile_expr(cs, stmt.kids[1]), Op("Print", 0), 0)
      [] stmt.k = "Stmt::Var" ->
            Bind(IF Len(stmt.kids) = 1 THEN compile_expr(cs, stmt.kids[1])
                 ELSE Emit(cs, Op("Nil", 0), stmt.line), LAMBDA c1 :
                IF c1.err # "" THEN c1
                ELSE Bind(NoteDeclaration(c1, stmt.name), LAMBDA c2 :
                    IF c2.scope_depth > 0 THEN declare_local(c2, stmt.name)
                    ELSE Bind(add_string(c2, stmt.name), LAMBDA g :
                            Emit(g.cs, Op("DefineGlobal", g.index), 0))))
      [] stmt.k = "Stmt::While" ->
            Bind(jump(compile_expr(cs, stmt.kids[1]), "JumpIfFalse"), LAMBDA exit_jump :
                NoteWhile(cs, exit_jump.ref,
                    Emit(resolve_jump(
                            jump_loop(
                                compile_stmt(Emit(exit_jump.cs, Op("Pop", 0), 0),
                                             stmt.kids[2]),
                                loop_start(cs), "Jump"),
                            exit_jump.ref),
                         Op("Pop", 0), 0)))

compile(cs, statements) ==
    IF statements = <<>> \/ cs.err # "" THEN cs
    ELSE compile(NotePoint(compile_stmt(cs, Head(statements))), Tail(statements))

(***************************************************************************)
(* value.rs: the operations of Value the VM uses.                          *)
(***************************************************************************)
\* is_truthy gone wrong: zero and the empty string are falsy too
is_truthy_of_c(v) ==
    CASE v.t = "Nil" -> FALSE
      [] v.t = "Boolean" -> v.b
      [] v.t = "Number" -> v.n # 0
      [] OTHER -> v.s # ""

\* Value::is_truthy
is_truthy(v) ==
    CASE v.t = "Nil" -> FALSE
      [] v.t = "Boolean" -> v.b
      [] OTHER -> TRUE

\* Value::is_equal
is_equal(l, r) ==
    CASE l.t = "Nil" /\ r.t = "Nil" -> TRUE
      [] l.t = "Boolean" /\ r.t = "Boolean" -> l.b = r.b
      [] l.t = "Number" /\ r.t = "Number" -> f64_eq(l, r)
      [] l.t = "String" /\ r.t = "String" -> l.s = r.s
      [] OTHER -> FALSE

\* impl Display for Value
to_string(v) ==
    CASE v.t = "Nil" -> "nil"
      [] v.t = "Boolean" -> IF v.b THEN "true" ELSE "false"
      [] v.t = "Number" -> f64_to_string(v)
      [] v.t = "String" -> v.s

(***************************************************************************)
(* vm.rs.  A VM value v is VM { ip, stack, globals } (the chunk is the     *)
(* variable chunk) with the lines written to standard output and result:   *)
(* "running" inside the loop of run, "Ok" or the VMError run returned, or  *)
(* "panic" when run aborted the process.                                   *)
(***************************************************************************)
\* usize arithmetic wraps at its modulus when overflow is not checked.  The
\* integers of TLC are 32 bits wide, so usize is taken 30 bits wide instead of 64:
\* what the VM uses of it is that a wrapped offset lies beyond every chunk's end.
USizeModulus == 2 ^ 30

\* What the run has done so far, kept beside the VM to state properties with.
\*   values  id of a local -> the value the program last gave it (its initializer's
\*           value, or the value last assigned through a SetLocal resolved to it)
\*   open    the Blocks entered and not yet left, innermost last, each with the
\*           stack depth on entry
\*   closed  the Blocks left by the last instruction, with the depth on exit
\*   last    offset of the last instruction executed, whether it jumped, and the
\*           stack and the globals table it found
\*   defined the names a DefineGlobal has put into the globals table
NoRunHistory ==
    [values |-> <<>>, open |-> <<>>, closed |-> <<>>, defined |-> {},
     last |-> [ip |-> 0, jumped |-> FALSE, op |-> Op("Unknown", 0),
               stack |-> <<>>, globals |-> <<>>]]

Running == [kind |-> "running", line |-> 0, err |-> "", name |-> "", n |-> 0]

RunOk == [Running EXCEPT !.kind = "Ok"]

Panic == [Running EXCEPT !.kind = "panic"]

\* VMError::Decode, InvalidOpCode, InvalidConstant, StackTooSmall
DecodeError(e) == [Running EXCEPT !.kind = "Decode", !.err = e]

InvalidOpCode(b) == [Running EXCEPT !.kind = "InvalidOpCode", !.n = b]

InvalidConstant(index) == [Running EXCEPT !.kind = "InvalidConstant", !.n = index]

StackTooSmall == [Running EXCEPT !.kind = "StackTooSmall"]

\* VMError::Runtime(line, RuntimeError)
Runtime(ln, e, name, n) ==
    [kind |-> "Runtime", line |-> ln, err |-> e, name |-> name, n |-> n]

\* VM::new; overflow_checks tells whether the build panics on integer overflow
\* (a debug build) or wraps (a release build)
NewVM(checks) ==
    [ip |-> 0, stack |-> <<>>, globals |-> <<>>, output |-> <<>>, result |-> Running,
     overflow_checks |-> checks, hist |-> NoRunHistory]

Stop(v, result) == [v EXCEPT !.result = result]

\* VM::push
push(v, value) == [v EXCEPT !.stack = Append(@, value)]

\* VM::peek: the value offset places below the top; callers test CanPeek first
CanPeek(v, offset) == offset < Len(v.stack)

peek(v, offset) == v.stack[Len(v.stack) - offset]

\* VM::drop of count values that are there
drop(v, count) == [v EXCEPT !.stack = SubSeq(@, 1, Len(@) - count)]

\* Result<Rc<Value>, VMError> and Result<(), VMError> of the stack operations, with
\* the VM they leave
StackOk(v, value) == [ok |-> TRUE, vm |-> v, value |-> value, err |-> Running]

StackErr(v) == [ok |-> FALSE, vm |-> v, value |-> Nil, err |-> StackTooSmall]

\* VM::peek with its test
peek_result(v, offset) ==
    IF offset < Len(v.stack) THEN StackOk(v, v.stack[Len(v.stack) - offset])
    ELSE StackErr(v)

\* VM::pop
pop(v) ==
    IF v.stack = <<>> THEN StackErr(v)
    ELSE StackOk([v EXCEPT !.stack = SubSeq(@, 1, Len(@) - 1)], v.stack[Len(v.stack)])

\* VM::drop gone wrong: the whole stack cannot be dropped
drop_result_strict(v, count) ==
    IF count < Len(v.stack)
    THEN StackOk([v EXCEPT !.stack = SubSeq(@, 1, Len(@) - count)], Nil)
    ELSE StackErr(v)

\* VM::drop with its test
drop_result(v, count) ==
    IF count <= Len(v.stack)
    THEN StackOk([v EXCEPT !.stack = SubSeq(@, 1, Len(@) - count)], Nil)
    ELSE StackErr(v)

\* the operand types as_number accepts
IsNumber(value) == value.t = "Number"

\* VM::as_string / VM::as_identifier accept a String object
IsString(value) == value.t = "String"

\* the value a numeric opcode computes from its operands
NumberOp(name, left, right) ==
    CASE name = "Greater" -> Boolean(f64_lt(right, left))
      [] name = "Less" -> Boolean(f64_lt(left, right))
      [] name = "Subtract" -> f64_add(left, f64_neg(right))
      [] name = "Multiply" -> f64_mul(left, right)
      [] name = "Divide" -> f64_div(left, right)

\* run_number_op gone wrong: the top of the stack is taken as the left operand
run_number_op_swapped(c, v, name) ==
    IF ~CanPeek(v, 0) THEN Stop(v, StackTooSmall)
    ELSE IF ~IsNumber(peek(v, 0)) THEN Stop(v, Runtime(line(c, v.ip), "ExpectedNumber", "", 0))
    ELSE IF ~CanPeek(v, 1) THEN Stop(v, StackTooSmall)
    ELSE IF ~IsNumber(peek(v, 1)) THEN Stop(v, Runtime(line(c, v.ip), "ExpectedNumber", "", 0))
    ELSE push(drop(v, 2), NumberOp(name, peek(v, 0), peek(v, 1)))

\* macro run_number_op! with the operands right, left
run_number_op(c, v, name) ==
    IF ~CanPeek(v, 0) THEN Stop(v, StackTooSmall)
    ELSE IF ~IsNumber(peek(v, 0)) THEN Stop(v, Runtime(line(c, v.ip), "ExpectedNumber", "", 0))
    ELSE IF ~CanPeek(v, 1) THEN Stop(v, StackTooSmall)
    ELSE IF ~IsNumber(peek(v, 1)) THEN Stop(v, Runtime(line(c, v.ip), "ExpectedNumber", "", 0))
    ELSE push(drop(v, 2), NumberOp(name, peek(v, 1), peek(v, 0)))

\* run_add gone wrong: a String on the right is not looked for
run_add_left_string_only(c, v) ==
    IF ~CanPeek(v, 0) \/ ~CanPeek(v, 1) THEN Stop(v, StackTooSmall)
    ELSE IF IsNumber(peek(v, 1)) /\ IsNumber(peek(v, 0))
    THEN push(drop(v, 2), f64_add(peek(v, 1), peek(v, 0)))
    ELSE IF IsString(peek(v, 1))
    THEN push(drop(v, 2), new_string(peek(v, 1).s \o to_string(peek(v, 0))))
    ELSE Stop(v, Runtime(line(c, v.ip), "InvalidAdditionArguments", "", 0))

\* the Add arm of run
run_add(c, v) ==
    IF ~CanPeek(v, 0) \/ ~CanPeek(v, 1) THEN Stop(v, StackTooSmall)
    ELSE LET right == peek(v, 0)
             left == peek(v, 1)
         IN IF IsNumber(left) /\ IsNumber(right)
            THEN push(drop(v, 2), f64_add(left, right))
            ELSE IF IsString(left)
            THEN push(drop(v, 2), new_string(left.s \o to_string(right)))
            ELSE IF IsString(right)
            THEN push(drop(v, 2), new_string(to_string(left) \o right.s))
            ELSE Stop(v, Runtime(line(c, v.ip), "InvalidAdditionArguments", "", 0))

\* jump_target gone wrong: the displacement is applied to the offset after the jump
jump_target_after_operand(v, offset) ==
    [panic |-> FALSE, ip |-> (v.ip + 3 + offset) % USizeModulus]

\* self.ip + offset as usize: the cast sign-extends a negative offset to
\* 2^64 + offset, so the addition overflows exactly when offset is negative and the
\* target is not before offset 0, and then panics or wraps, as the build has it
jump_target(v, offset) ==
    IF offset < 0 /\ v.ip + offset >= 0 /\ v.overflow_checks THEN [panic |-> TRUE, ip |-> 0]
    ELSE [panic |-> FALSE, ip |-> (v.ip + offset) % USizeModulus]

\* run_local gone wrong: SetLocal moves the top of the stack into the slot
run_local_set_pops(c, v, o) ==
    IF o.name = "GetLocal" THEN
        IF o.arg < Len(v.stack) THEN push(v, v.stack[o.arg + 1])
        ELSE Stop(v, Runtime(line(c, v.ip), "UndefinedLocal", "", o.arg))
    ELSE IF ~CanPeek(v, 0) THEN Stop(v, StackTooSmall)
    ELSE IF o.arg >= Len(v.stack) THEN Stop(v, Panic)
    ELSE drop([v EXCEPT !.stack[o.arg + 1] = peek(v, 0)], 1)

\* the GetLocal and SetLocal arms of run; self.stack[index] panics out of range
run_local(c, v, o) ==
    IF o.name = "GetLocal" THEN
        IF o.arg < Len(v.stack) THEN push(v, v.stack[o.arg + 1])
        ELSE Stop(v, Runtime(line(c, v.ip), "UndefinedLocal", "", o.arg))
    ELSE IF ~CanPeek(v, 0) THEN Stop(v, StackTooSmall)
    ELSE IF o.arg >= Len(v.stack) THEN Stop(v, Panic)
    ELSE [v EXCEPT !.stack[o.arg + 1] = peek(v, 0)]

\* run_global gone wrong: SetGlobal makes the name when it is not there
run_global_set_creates(c, v, o) ==
    LET k == constant(c, o.arg) IN
    IF ~k.ok THEN Stop(v, InvalidConstant(o.arg))
    ELSE IF ~IsString(k.value)
    THEN Stop(v, Runtime(line(c, v.ip), "ExpectedIdentifier", "", 0))
    ELSE LET ident == k.value.s IN
         CASE o.name = "GetGlobal" ->
                IF ident \in DOMAIN v.globals THEN push(v, v.globals[ident])
                ELSE Stop(v, Runtime(line(c, v.ip), "UndefinedGlobal", ident, 0))
           [] o.name = "DefineGlobal" ->
                IF ~CanPeek(v, 0) THEN Stop(v, StackTooSmall)
                ELSE drop([v EXCEPT !.globals = (ident :> peek(v, 0)) @@ @], 1)
           [] o.name = "SetGlobal" ->
                IF ~CanPeek(v, 0) THEN Stop(v, StackTooSmall)
                ELSE [v EXCEPT !.globals = (ident :> peek(v, 0)) @@ @]

\* the arms of run that read a global's name from the constant pool
run_global(c, v, o) ==
    LET k == constant(c, o.arg) IN
    IF ~k.ok THEN Stop(v, InvalidConstant(o.arg))
    ELSE IF ~IsString(k.value)
    THEN Stop(v, Runtime(line(c, v.ip), "ExpectedIdentifier", "", 0))
    ELSE LET ident == k.value.s IN
         CASE o.name = "GetGlobal" ->
                IF ident \in DOMAIN v.globals THEN push(v, v.globals[ident])
                ELSE Stop(v, Runtime(line(c, v.ip), "UndefinedGlobal", ident, 0))
           [] o.name = "DefineGlobal" ->
                IF ~CanPeek(v, 0) THEN Stop(v, StackTooSmall)
                ELSE drop([v EXCEPT !.globals = (ident :> peek(v, 0)) @@ @], 1)
           [] o.name = "SetGlobal" ->
                IF ~CanPeek(v, 0) THEN Stop(v, StackTooSmall)
                ELSE IF ident \notin DOMAIN v.globals
                THEN Stop(v, Runtime(line(c, v.ip), "UndefinedGlobal", ident, 0))
                ELSE [v EXCEPT !.globals = (ident :> peek(v, 0)) @@ @]

\* the match of run on the decoded opcode: the VM after the arm, ip not yet advanced
execute(c, v, o) ==
    CASE o.name = "Constant" ->
            IF constant(c, o.arg).ok THEN push(v, constant(c, o.arg).value)
            ELSE Stop(v, InvalidConstant(o.arg))
      [] o.name = "True" -> push(v, Boolean(TRUE))
      [] o.name = "False" -> push(v, Boolean(FALSE))
      [] o.name = "Nil" -> push(v, Nil)
      [] o.name = "Pop" -> IF CanPeek(v, 0) THEN drop(v, 1) ELSE Stop(v, StackTooSmall)
      [] o.name \in {"GetLocal", "SetLocal"} -> run_local(c, v, o)
      [] o.name \in {"GetGlobal", "DefineGlobal", "SetGlobal"} -> run_global(c, v, o)
      [] o.name = "Equal" ->
            IF ~CanPeek(v, 0) THEN Stop(v, StackTooSmall)
            ELSE IF ~CanPeek(v, 1) THEN Stop(drop(v, 1), StackTooSmall)
            ELSE push(drop(v, 2), Boolean(is_equal(peek(v, 1), peek(v, 0))))
      [] o.name \in {"Greater", "Less", "Subtract", "Multiply", "Divide"} ->
            run_number_op(c, v, o.name)
      [] o.name = "Add" -> run_add(c, v)
      [] o.name = "Not" ->
            IF ~CanPeek(v, 0) THEN Stop(v, StackTooSmall)
            ELSE push(drop(v, 1), Boolean(~is_truthy(peek(v, 0))))
      [] o.name = "Negate" ->
            IF ~CanPeek(v, 0) THEN Stop(v, StackTooSmall)
            ELSE IF ~IsNumber(peek(v, 0))
            THEN Stop(v, Runtime(line(c, v.ip), "ExpectedNumber", "", 0))
            ELSE push(drop(v, 1), f64_neg(peek(v, 0)))
      [] o.name = "Print" ->
            IF ~CanPeek(v, 0) THEN Stop(v, StackTooSmall)
            ELSE [drop(v, 1) EXCEPT !.output = Append(@, to_string(peek(v, 0)))]
      [] o.name = "Jump" -> v
      [] o.name = "JumpIfFalse" -> IF CanPeek(v, 0) THEN v ELSE Stop(v, StackTooSmall)
      [] o.name = "Return" -> Stop(v, RunOk)
      [] o.name = "Unknown" -> Stop(v, InvalidOpCode(o.arg))

\* whether the decoded opcode overrides next_ip
TakesJump(v, o) ==
    \/ o.name = "Jump"
    \/ o.name = "JumpIfFalse" /\ CanPeek(v, 0) /\ ~is_truthy(peek(v, 0))

\* one iteration of the loop of VM::run
step(c, v) ==
    LET d == chunk_decode(c, v.ip) IN
    IF ~d.ok THEN Stop(v, DecodeError(d.err))
    ELSE IF TakesJump(v, d.op) THEN
        LET t == jump_target(v, d.op.arg) IN
        IF t.panic THEN Stop(v, Panic) ELSE [v EXCEPT !.ip = t.ip]
    ELSE LET w == execute(c, v, d.op) IN
         IF w.result.kind # "running" THEN w ELSE [w EXCEPT !.ip = d.len]

(***************************************************************************)
(* Values of the variables a specification does not use.                   *)
(***************************************************************************)
NoOp == Op("Unknown", 0)

NoDecoded == DecodeErr("", 0)

NoCall == [fn |-> "none"]

NoProgram == <<>>

NoCompiler ==
    [locals |-> <<>>, scope_depth |-> 0, err |-> "none", name |-> "", done |-> 0,
     hist |-> NoHistory]

NoVM == [NewVM(FALSE) EXCEPT !.result.kind = "none"]

NoScanner == [source |-> <<>>]

NoInterp == [envs |-> <<>>]

(***************************************************************************)
(* SpecOp: every OpCode value, encoded and decoded again.                  *)
(***************************************************************************)
InitOp ==
    /\ interp = NoInterp
    /\ scanner = NoScanner
    /\ pc = "op"
    /\ op \in OpCode
    /\ bytes = <<>>
    /\ decoded = NoDecoded
    /\ chunk = EmptyChunk
    /\ adds = <<>>
    /\ call = NoCall
    /\ seed = 0
    /\ program = NoProgram
    /\ compiler = NoCompiler
    /\ vm = NoVM

Encode ==
    /\ pc = "op"
    /\ bytes' = encode(op)
    /\ pc' = "encoded"
    /\ UNCHANGED <<interp, scanner, op, decoded, chunk, adds, call, seed, program, compiler, vm>>

Decode ==
    /\ pc = "encoded"
    /\ decoded' = decode(bytes)
    /\ pc' = "decoded"
    /\ UNCHANGED <<interp, scanner, op, bytes, chunk, adds, call, seed, program, compiler, vm>>

NextOp == Encode \/ Decode

SpecOp == InitOp /\ [][NextOp]_vars

\* the tag bytes decode assigns to a variant other than Unknown
AssignedTags == OP_CONSTANT..OP_RETURN

\* C1 as stated: decode(op.encode()) is (op, len) with len = op.byte_length() = the
\* number of bytes op.encode() produced, for every OpCode value, Unknown(b) included
RoundTripEveryOpCode ==
    pc = "decoded" =>
        /\ decoded.ok
        /\ decoded.op = op
        /\ decoded.len = byte_length(op)
        /\ decoded.len = Len(bytes)

\* C1, amended: the round trip holds for every OpCode value except Unknown(b) with b
\* an assigned tag; for those, decode yields the variant the tag is assigned to, or
\* fails for want of operand bytes
RoundTripOpCode ==
    pc = "decoded" =>
        IF op.name = "Unknown" /\ op.arg \in AssignedTags
        THEN \/ ~decoded.ok /\ decoded.err = "UnexpectedEOF"
             \/ decoded.ok /\ decoded.op = Op(NameOf(op.arg), 0) /\ decoded.len = 1
        ELSE /\ decoded.ok
             /\ decoded.op = op
             /\ decoded.len = byte_length(op)
             /\ decoded.len = Len(bytes)

\* a backward jump has made the round trip
RoundTripWitness ==
    pc = "decoded" /\ op = Op("JumpIfFalse", -2) /\ bytes = <<OP_JUMP_IF_FALSE, 255, 254>>
        /\ decoded.ok /\ decoded.op = op

(***************************************************************************)
(* SpecChunk: a Chunk driven through add and patch.                        *)
(***************************************************************************)
\* at most this many Chunk.add calls
MaxAdds == 2

\* source lines are 0..MaxLine
MaxLine == 1

\* the opcodes offered to add and patch: one, two and three bytes wide
ChunkOps == {Op("Pop", 0), Op("Constant", 1), Op("Jump", 0), Op("JumpIfFalse", 6)}

\* the opcodes offered to patch: those offered to add, and Unknown holding the
\* tag of Constant, the tag of Pop and a byte that is no tag
PatchOps ==
    ChunkOps \cup {Op("Unknown", OP_CONSTANT), Op("Unknown", OP_POP), Op("Unknown", U8Max)}

InitChunk ==
    /\ interp = NoInterp
    /\ scanner = NoScanner
    /\ pc = "chunk"
    /\ op = NoOp
    /\ bytes = <<>>
    /\ decoded = NoDecoded
    /\ chunk = EmptyChunk
    /\ adds = <<>>
    /\ call = NoCall
    /\ seed = 0
    /\ program = NoProgram
    /\ compiler = NoCompiler
    /\ vm = NoVM

\* chunk.add(o, l)
ChunkAdd ==
    /\ pc = "chunk"
    /\ Len(adds) < MaxAdds
    /\ \E o \in ChunkOps, l \in 0..MaxLine :
        LET r == add(chunk, o, l) IN
        /\ chunk' = r.chunk
        /\ adds' = Append(adds, [ref |-> r.ref, line |-> l, op |-> o])
        /\ call' = [fn |-> "add"]
    /\ UNCHANGED <<interp, scanner, pc, op, bytes, decoded, seed, program, compiler, vm>>

\* chunk.patch(reference, o) with a reference an earlier add returned; a panic
\* ends the run
ChunkPatch ==
    /\ pc = "chunk"
    /\ \E i \in 1..Len(adds), o \in PatchOps :
        LET r == patch(chunk, adds[i].ref, o) IN
        /\ chunk' = r.chunk
        /\ call' = [fn |-> "patch", op |-> o, location |-> adds[i].ref, panic |-> r.panic,
                    before |-> chunk]
        /\ pc' = IF r.panic THEN "panicked" ELSE pc
    /\ UNCHANGED <<interp, scanner, op, bytes, decoded, adds, seed, program, compiler, vm>>

NextChunk == ChunkAdd \/ ChunkPatch

SpecChunk == InitChunk /\ [][NextChunk]_vars

\* C8: a patch whose op encodes to a length other than the reference's panics and
\* leaves every byte of the chunk as it was
PatchWidthMismatchPanics ==
    (call.fn = "patch" /\ Len(encode(call.op)) # call.location.length) =>
        /\ call.panic
        /\ pc = "panicked"
        /\ chunk.code = call.before.code

\* a one-byte Pop was patched over a three-byte jump
PatchWidthMismatchWitness ==
    /\ call.fn = "patch"
    /\ call.op = Op("Pop", 0)
    /\ call.location = ChunkReference(1, 3)
    /\ pc = "panicked"

\* the line passed to the add whose instruction starts at the greatest offset <= offset
RecordedLine(offset) ==
    IF adds = <<>> THEN 0
    ELSE LET S == {i \in 1..Len(adds) : adds[i].ref.offset <= offset}
             i == CHOOSE k \in S : \A j \in S : adds[j].ref.offset <= adds[k].ref.offset
         IN adds[i].line

\* C9: line(offset) is the line of the add at the greatest recorded offset <= offset,
\* for offsets at an instruction's start, inside its operand bytes and past the end,
\* and 0 on a chunk with no instructions
LineIsNearestRecorded ==
    \A offset \in 0..(Len(chunk.code) + 2) : line(chunk, offset) = RecordedLine(offset)

\* two instructions on different lines, and an offset inside the operand of the second
LineWitness ==
    /\ Len(adds) >= 2
    /\ adds[1].line = 0
    /\ adds[2].line = 1
    /\ adds[2].ref = ChunkReference(1, 3)
    /\ line(chunk, 3) = 1
    /\ line(chunk, 0) = 0
    /\ line(chunk, 7) = 1

\* a patch of a replacement as wide as its location has been made
Patched == call.fn = "patch" /\ Len(encode(call.op)) = call.location.length

\* the patch changed no more than the bytes of its location
PatchFrame ==
    /\ ~call.panic
    /\ Len(chunk.code) = Len(call.before.code)
    /\ \A i \in 1..Len(chunk.code) :
          (i - 1 < call.location.offset
              \/ i - 1 >= call.location.offset + call.location.length)
            => chunk.code[i] = call.before.code[i]
    /\ \A i \in 1..call.location.length :
          chunk.code[call.location.offset + i] = encode(call.op)[i]
    /\ chunk.lines = call.before.lines
    /\ chunk.constants = call.before.constants

\* decoding at the location gives the replacement, and as next offset the end of
\* the location, which is the next offset that add left there
PatchDecodes ==
    /\ chunk_decode(chunk, call.location.offset).ok
    /\ chunk_decode(chunk, call.location.offset).op = call.op
    /\ chunk_decode(chunk, call.location.offset).len
            = call.location.offset + call.location.length

\* C36 as stated: a patch with any replacement as wide as its location changes only
\* the bytes of the location, and decoding there gives the replacement and the
\* next offset as before
PatchOfEqualWidthIsLocal ==
    Patched => PatchFrame /\ PatchDecodes

\* C36: a patch with a replacement as wide as its location changes only the bytes of
\* the location (length, other bytes, lines and constants stay), and, unless the
\* replacement is Unknown of an assigned tag, decoding there gives the replacement
\* and the next offset as before
PatchOfEqualWidthIsLocalButForTags ==
    Patched =>
        /\ PatchFrame
        /\ (call.op.name = "Unknown" /\ call.op.arg <= OP_RETURN) \/ PatchDecodes

\* a three-byte JumpIfFalse was patched over a Jump that other instructions follow
PatchWitness ==
    /\ Patched
    /\ call.op = Op("JumpIfFalse", 6)
    /\ chunk_decode(call.before, call.location.offset).op = Op("Jump", 0)
    /\ call.location.offset + 3 < Len(chunk.code)

(***************************************************************************)
(* SpecRun: main.rs run(): the statements of one input unit are compiled   *)
(* one by one into one Chunk, then a VM is made for the chunk and run.     *)
(***************************************************************************)
\* the run is cut short once this many lines have been printed
MaxOutput == 5

\* the run is cut short once the evaluation stack is this deep
MaxStack == 6

\* print a;      a = false;
PrintA == SPrint(EVar("a", 1))

AssignA == SExpression(EAssign("a", 2, EBoolean(2, FALSE)))

\* var a = 1;    var a = 2;
VarA1 == SVar("a", 1, ENumber(1, 1))

VarA2 == SVar("a", 2, ENumber(2, 2))

\* statements the parser accepts as the body of an if or a while
Simple == {PrintA, AssignA}

\* if and while statements over the simple ones
Control ==
    {SIf(EBoolean(1, FALSE), PrintA),
     SIf(EVar("a", 2), AssignA),
     SIfElse(EVar("a", 1), PrintA, AssignA),
     SWhile(EVar("a", 2), AssignA)}

\* what a block is made of
Declarations == Simple \cup Control \cup {VarA1, VarA2}

UpToOne(S) == {<<>>} \cup {<<x>> : x \in S}

UpToTwo(S) == UpToOne(S) \cup {<<x, y>> : x \in S, y \in S}

\* { x { y z } w }
Blocks ==
    {SBlock(x \o inner \o w) :
        x \in UpToOne({VarA1, SIf(EBoolean(1, FALSE), PrintA)}),
        inner \in UpToOne({SBlock(yz) : yz \in UpToTwo(Declarations)}),
        w \in UpToOne({PrintA, VarA1})}

\* the concrete scenarios
Scenarios ==
    {<<SExpression(EBinary(ENumber(1, 1), "Plus", 1, ENumber(1, 2)))>>,
     <<SPrint(EBinary(ENumber(1, 1), "Plus", 1,
                      EBinary(ENumber(1, 2), "Star", 1, ENumber(1, 3))))>>,
     <<SVar("a", 1, ENumber(1, 1)), SBlock(<<SVar("a", 1, ENumber(1, 2)), PrintA>>), PrintA>>,
     <<SVarNil("a", 1),
       SIfElse(EBinary(EVar("a", 1), "EqualEqual", 1, ENil(1)),
               SPrint(EString(1, "yes")), SPrint(EString(1, "no")))>>,
     <<SVar("i", 1, ENumber(1, 0)),
       SWhile(EBinary(EVar("i", 1), "Less", 1, ENumber(1, 3)),
              SBlock(<<SPrint(EVar("i", 1)),
                       SExpression(EAssign("i", 1,
                            EBinary(EVar("i", 1), "Plus", 1, ENumber(1, 1))))>>))>>,
     <<SPrint(EBinary(EString(1, "a"), "EqualEqual", 1, EString(1, "a")))>>}

\* an Err(ParserError) among the results of parser.parse()
ParserError == [k |-> "ParserError", kids |-> <<>>]

\* input units in which the parser or the compiler refuses a statement after, before
\* or between statements that compile
Refused ==
    {<<SPrint(ENumber(1, 1)), ParserError>>,
     <<ParserError, SPrint(ENumber(1, 1))>>,
     <<VarA1, ParserError, PrintA>>,
     <<SPrint(ENumber(1, 1)), SBlock(<<VarA1, VarA1>>), SPrint(ENumber(1, 2))>>}

\* units that fault when run, the faulting token on a line of its own
Faulting ==
    {<<SPrint(EUnary("Minus", 3, EBoolean(2, TRUE)))>>,
     <<VarA1, SPrint(EBinary(ENumber(2, 1), "Plus", 3, ENil(4)))>>,
     <<VarA1, SPrint(EBinary(EVar("a", 2), "Less", 3, EString(4, "x")))>>,
     <<SPrint(EVar("b", 2))>>,
     <<VarA1, SPrint(EVar("b", 3)), PrintA>>,
     <<VarA1, SIf(EBoolean(2, TRUE), SExpression(EAssign("b", 4, ENumber(3, 1))))>>,
     <<SBlock(<<VarA1, SExpression(EBinary(EVar("a", 2), "Slash", 3, EBoolean(4, FALSE)))>>)>>}

\* the literals: falsy ones, and truthy ones with 0 and "" among them
Literals ==
    {EBoolean(1, TRUE), EBoolean(1, FALSE), ENil(1), ENumber(1, 0), EString(1, "")}

\* print l or r;   print l and r;   print l and 2 or (nil or r);
LogicalPrints ==
    {<<SPrint(ELogical(l, tok, 1, r))>> :
        l \in Literals, tok \in {"Or", "And"}, r \in {ENumber(1, 2), ENil(1)}}
    \cup
    {<<SPrint(ELogical(ELogical(l, "And", 1, ENumber(1, 2)), "Or", 1,
                      EGrouping(ELogical(ENil(1), "Or", 1, r))))>> :
        l \in Literals, r \in {ENumber(1, 3), EBoolean(1, FALSE)}}

\* var a = 1; print l or (a = 2); print a;      and the same with `and`
LogicalAssigns ==
    {<<VarA1, SPrint(ELogical(l, tok, 1, EGrouping(EAssign("a", 1, ENumber(1, 2))))),
       PrintA>> :
        l \in {EBoolean(1, TRUE), ENil(1)}, tok \in {"Or", "And"}}

\* expressions of every kind but Var and Assign, one of them faulting
Expressions ==
    {EBinary(ENumber(1, 1), "Plus", 1, EString(1, "x")),
     EBinary(ENumber(1, 1), "BangEqual", 1, ENil(1)),
     EBinary(ENumber(1, 1), "LessEqual", 1, EGrouping(EUnary("Minus", 1, ENumber(1, 2)))),
     EUnary("Bang", 1, ELogical(ENil(1), "Or", 1, EBoolean(1, TRUE))),
     ELogical(EString(1, "x"), "And", 1, EBinary(ENumber(1, 2), "Slash", 1, ENumber(1, 0))),
     EUnary("Minus", 1, ENil(1))}

\* x; y;     and     var a = 1; a = x; y;
ExpressionStatements ==
    {<<SExpression(x), SExpression(y)>> : x \in Expressions, y \in Expressions}
    \cup
    {<<VarA1, SExpression(EAssign("a", 1, x)), SExpression(EVar("a", 1))>> :
        x \in Expressions}

\* the input units: globals, then a block, then a statement after it
Programs ==
    Scenarios \cup Refused \cup Faulting \cup LogicalPrints \cup LogicalAssigns \cup
    ExpressionStatements \cup
    {top \o <<b>> \o tail :
        top \in {<<>>, <<VarA1>>, <<VarA1, VarA2>>},
        b \in Blocks,
        tail \in UpToOne({PrintA})}

InitRun ==
    /\ interp = NoInterp
    /\ scanner = NoScanner
    /\ pc = "compile"
    /\ op = NoOp
    /\ bytes = <<>>
    /\ decoded = NoDecoded
    /\ chunk = EmptyChunk
    /\ adds = <<>>
    /\ call = NoCall
    /\ seed = 0
    /\ program \in Programs
    /\ compiler = [NewCompiler(EmptyChunk) EXCEPT !.chunk = <<>>] @@ [done |-> 0]
    /\ vm = NoVM

\* the compiler with the chunk it borrows
Borrow(cs, c) == [cs EXCEPT !.chunk = c]

\* main.rs run: compiler.compile(vec![statement]) for the next statement
CompileStatement ==
    /\ pc = "compile"
    /\ compiler.done < Len(program)
    /\ IF program[compiler.done + 1] = ParserError
       THEN \* result.map_err(ReplError::Parser)?
            /\ chunk' = chunk
            /\ compiler' = [compiler EXCEPT !.err = "ParserError", !.done = @ + 1]
            /\ pc' = "failed"
       ELSE \E cs \in {compile(Borrow(compiler, chunk), <<program[compiler.done + 1]>>)} :
            /\ chunk' = cs.chunk
            /\ compiler' = [cs EXCEPT !.chunk = <<>>, !.done = @ + 1]
            /\ pc' = IF cs.err # "" THEN "failed" ELSE pc
    /\ UNCHANGED <<interp, scanner, op, bytes, decoded, adds, call, seed, program, vm>>

\* history only: the Blocks that the instruction just executed left and entered
Observe(hist, v) ==
    LET depth == Len(v.stack)
        open == v.hist.open
        \* the innermost open blocks that end here
        leaving == {i \in 1..Len(open) :
                        \A j \in i..Len(open) : open[j].end = v.ip}
        kept == Len(open) - Cardinality(leaving)
        closed == [i \in 1..Cardinality(leaving) |->
                        [open[Len(open) + 1 - i] EXCEPT !.exit = depth]]
        starting == {b \in hist.blocks :
                        /\ b.start = v.ip
                        /\ b.end > b.start
                        /\ \A j \in 1..kept :
                            <<open[j].kind, open[j].start, open[j].end>>
                                # <<b.kind, b.start, b.end>>}
        RECURSIVE Outermost(_)
        Outermost(S) ==
            IF S = {} THEN <<>>
            ELSE LET b == CHOOSE x \in S : \A y \in S : y.end <= x.end
                 IN <<[kind |-> b.kind, start |-> b.start, end |-> b.end,
                       entry |-> depth, exit |-> 0]>>
                        \o Outermost(S \ {b})
        values == IF v.ip \in DOMAIN hist.decl_at /\ depth > 0
                  THEN (hist.decl_at[v.ip] :> peek(v, 0)) @@ v.hist.values
                  ELSE v.hist.values
    IN [v EXCEPT !.hist.open = SubSeq(open, 1, kept) \o Outermost(starting),
                 !.hist.closed = closed,
                 !.hist.values = values]

\* StartRun gone wrong: the VM is made once the first statement has been compiled
StartRunEarly ==
    /\ pc = "compile"
    /\ compiler.done >= 1
    /\ \E checks \in BOOLEAN : vm' = Observe(compiler.hist, NewVM(checks))
    /\ call' = [fn |-> "VM::new", chunk |-> chunk]
    /\ pc' = "run"
    /\ UNCHANGED <<interp, scanner, op, bytes, decoded, chunk, adds, seed, program, compiler>>

\* main.rs run: VM::new(Rc::new(chunk)), in a build with or without overflow checks
StartRun ==
    /\ pc = "compile"
    /\ compiler.done = Len(program)
    /\ \E checks \in BOOLEAN : vm' = Observe(compiler.hist, NewVM(checks))
    /\ call' = [fn |-> "VM::new", chunk |-> chunk]
    /\ pc' = "run"
    /\ UNCHANGED <<interp, scanner, op, bytes, decoded, chunk, adds, seed, program, compiler>>

\* history only: what the instruction at v.ip is, and the value a SetLocal assigns
Before(hist, c, v) ==
    LET d == chunk_decode(c, v.ip)
        assigns == d.ok /\ d.op.name = "SetLocal" /\ v.ip \in DOMAIN hist.refs
                        /\ CanPeek(v, 0)
        defines == d.ok /\ d.op.name = "DefineGlobal" /\ CanPeek(v, 0)
                        /\ constant(c, d.op.arg).ok
    IN [v EXCEPT
          !.hist.last = [ip |-> v.ip, jumped |-> d.ok /\ TakesJump(v, d.op),
                         op |-> IF d.ok THEN d.op ELSE Op("Unknown", 0),
                         stack |-> v.stack, globals |-> v.globals],
          !.hist.defined = IF defines THEN @ \cup {constant(c, d.op.arg).value.s} ELSE @,
          !.hist.values = IF assigns THEN (hist.refs[v.ip].id :> peek(v, 0)) @@ @ ELSE @]

\* one iteration of the loop of VM::run
VMStep ==
    /\ pc = "run"
    /\ vm.result.kind = "running"
    /\ Len(vm.output) < MaxOutput
    /\ Len(vm.stack) < MaxStack
    /\ vm' = Observe(compiler.hist, step(chunk, Before(compiler.hist, chunk, vm)))
    /\ pc' = IF vm'.result.kind = "running" THEN pc ELSE "done"
    /\ UNCHANGED <<interp, scanner, op, bytes, decoded, chunk, adds, call, seed, program, compiler>>

NextRun == CompileStatement \/ StartRun \/ VMStep

SpecRun == InitRun /\ [][NextRun]_vars

\* the run has ended as run() returning, for a reason other than a fault of the
\* script or an abort of the process
Finished == pc = "done" /\ vm.result.kind \notin {"Runtime", "panic"}

\* C2: a run that ends without a runtime fault ended by executing a Return, and
\* run returned Ok(())
RunEndsByReturn ==
    Finished => vm.result = RunOk /\ vm.hist.last.op = Op("Return", 0)

\* C3: run returns no Decode, InvalidOpCode, InvalidConstant or StackTooSmall error
\* on a compiled chunk
NoCompilerDefectError ==
    vm.result.kind \notin {"Decode", "InvalidOpCode", "InvalidConstant", "StackTooSmall"}

\* C4: every Block the VM has run from its first instruction to its end left the
\* evaluation stack as deep as it found it
BlockKeepsStackDepth ==
    \A i \in 1..Len(vm.hist.closed) :
        vm.hist.closed[i].kind = "Stmt::Block" =>
            vm.hist.closed[i].exit = vm.hist.closed[i].entry

\* C5 as stated: a Var statement whose name is already declared at the same scope
\* depth, depth 0 included, makes compile fail with VariableAlreadyDeclared(name)
RedeclarationFailsAtEveryDepth ==
    \A i \in 1..Len(compiler.hist.redeclared) :
        /\ pc = "failed"
        /\ compiler.err = "VariableAlreadyDeclared"
        /\ compiler.name = compiler.hist.redeclared[i][1]

\* C5, amended: inside a block (scope depth >= 1, fewer than 255 locals live) the
\* redeclaration fails with VariableAlreadyDeclared(name); at depth 0 it is accepted,
\* so VariableAlreadyDeclared is never reported for a declaration at depth 0
RedeclarationFailsInBlocks ==
    /\ \A i \in 1..Len(compiler.hist.redeclared) :
        LET r == compiler.hist.redeclared[i] IN
        IF r[2] >= 1 /\ r[3] < U8Max
        THEN /\ pc = "failed"
             /\ compiler.err = "VariableAlreadyDeclared"
             /\ compiler.name = r[1]
             /\ i = Len(compiler.hist.redeclared)
        ELSE r[2] = 0 /\ (i = Len(compiler.hist.redeclared) => compiler.err = "")
    /\ compiler.err = "VariableAlreadyDeclared" =>
        /\ compiler.hist.redeclared # <<>>
        /\ compiler.hist.redeclared[Len(compiler.hist.redeclared)][2] >= 1

\* a redeclaration two blocks deep was refused after one at depth 0 was accepted
RedeclarationWitness ==
    /\ pc = "failed"
    /\ compiler.err = "VariableAlreadyDeclared"
    /\ compiler.hist.redeclared = <<<<"a", 0, 0>>, <<"a", 2, 1>>>>

\* the instruction the VM is about to execute
Fetched == chunk_decode(chunk, vm.ip)

\* C6: each access to a local that shadows or is shadowed was resolved to the
\* innermost live declaration of its name, and each read of such a local the VM
\* executes yields the value the program last gave that variable
ShadowedReadsSeeTheirVariable ==
    /\ \A p \in DOMAIN compiler.hist.refs :
        compiler.hist.refs[p].id \in compiler.hist.shadowing =>
            compiler.hist.refs[p].innermost
    /\ (pc = "run" /\ Fetched.ok /\ Fetched.op.name = "GetLocal"
            /\ vm.ip \in DOMAIN compiler.hist.refs
            /\ compiler.hist.refs[vm.ip].id \in compiler.hist.shadowing) =>
        /\ Fetched.op.arg < Len(vm.stack)
        /\ compiler.hist.refs[vm.ip].id \in DOMAIN vm.hist.values
        /\ vm.stack[Fetched.op.arg + 1] = vm.hist.values[compiler.hist.refs[vm.ip].id]

CompilationPrecedesExecution ==
    /\ pc \in {"run", "done"} =>
        /\ compiler.done = Len(program)
        /\ compiler.err = ""
        /\ \A i \in 1..Len(program) : program[i] # ParserError
        /\ call.fn = "VM::new"
        /\ chunk = call.chunk
    /\ pc = "failed" => vm = NoVM /\ call = NoCall
    /\ vm # NoVM => pc \in {"run", "done"}
    /\ (compiler.err \notin {"", "none"}
            \/ \E i \in 1..compiler.done : program[i] = ParserError) => pc = "failed"

\* a statement was compiled into the chunk, the next one was refused by the parser,
\* and no VM was made
CompilationWitness ==
    /\ pc = "failed"
    /\ compiler.err = "ParserError"
    /\ compiler.done = 2
    /\ chunk.code # <<>>
    /\ vm = NoVM

\* the name a global instruction reads from the constant pool
GlobalName(o) == constant(chunk, o.arg).value.s

\* C14: an assignment to a global that is not in the table compiles, and fails when
\* run: SetGlobal returns Runtime(line, UndefinedGlobal(name)) and leaves the table as
\* it was; every key of the table was put there by a DefineGlobal; DefineGlobal
\* inserts or overwrites the name and pops one value
GlobalsComeFromDefineGlobal ==
    pc \in {"run", "done"} =>
        /\ DOMAIN vm.globals \subseteq vm.hist.defined
        /\ (vm.hist.last.op.name = "SetGlobal" /\ vm.hist.last.stack # <<>>) =>
            IF GlobalName(vm.hist.last.op) \in DOMAIN vm.hist.last.globals
            THEN /\ vm.result = Running
                 /\ vm.stack = vm.hist.last.stack
                 /\ vm.globals = [vm.hist.last.globals EXCEPT
                        ![GlobalName(vm.hist.last.op)] =
                            vm.hist.last.stack[Len(vm.hist.last.stack)]]
            ELSE /\ pc = "done"
                 /\ compiler.err = ""
                 /\ vm.result = Runtime(line(chunk, vm.hist.last.ip), "UndefinedGlobal",
                                        GlobalName(vm.hist.last.op), 0)
                 /\ vm.globals = vm.hist.last.globals
        /\ (vm.hist.last.op.name = "DefineGlobal" /\ vm.hist.last.stack # <<>>) =>
            /\ vm.result = Running
            /\ vm.stack = SubSeq(vm.hist.last.stack, 1, Len(vm.hist.last.stack) - 1)
            /\ DOMAIN vm.globals =
                    DOMAIN vm.hist.last.globals \cup {GlobalName(vm.hist.last.op)}
            /\ \A key \in DOMAIN vm.globals :
                    vm.globals[key] =
                        IF key = GlobalName(vm.hist.last.op)
                        THEN vm.hist.last.stack[Len(vm.hist.last.stack)]
                        ELSE vm.hist.last.globals[key]

\* `a = false;` compiled with no global a, and failed when run, the table still empty
UndefinedGlobalWitness ==
    /\ pc = "done"
    /\ vm.hist.last.op.name = "SetGlobal"
    /\ vm.result = Runtime(2, "UndefinedGlobal", "a", 0)
    /\ vm.globals = <<>>
    /\ vm.hist.last.stack = <<Boolean(FALSE)>>

\* the opcodes whose arm of run can return VMError::Runtime; compile_expr emits each
\* with the line of its operator or identifier token
TokenOps ==
    {"Greater", "Less", "Add", "Subtract", "Multiply", "Divide", "Negate",
     "GetLocal", "GetGlobal", "SetGlobal"}

\* C15: every VMError::Runtime(line, _) of a compiled chunk carries the line of the
\* token whose instruction faulted, which is chunk.line of that instruction's offset,
\* whatever the lines of the instructions around it
RuntimeErrorsCarryTokenLine ==
    (pc = "done" /\ vm.result.kind = "Runtime") =>
        /\ vm.hist.last.ip \in DOMAIN compiler.hist.emitted
        /\ compiler.hist.emitted[vm.hist.last.ip].op = vm.hist.last.op.name
        /\ vm.hist.last.op.name \in TokenOps
        /\ vm.result.line = compiler.hist.emitted[vm.hist.last.ip].line
        /\ vm.result.line = line(chunk, vm.hist.last.ip)

\* `var a = 1; print a < "x";` faulted on line 3, the DefineGlobal before the
\* comparison and the Print after it recorded with line 0
TokenLineWitness ==
    /\ pc = "done"
    /\ vm.result = Runtime(3, "ExpectedNumber", "", 0)
    /\ vm.hist.last.op.name = "Less"
    /\ \E before \in DOMAIN compiler.hist.emitted :
            /\ before < vm.hist.last.ip
            /\ compiler.hist.emitted[before] = [op |-> "DefineGlobal", line |-> 0]
    /\ compiler.hist.emitted[vm.hist.last.ip + 1] = [op |-> "Print", line |-> 0]

\* the If statement whose JumpIfFalse the VM has just executed
Tested == compiler.hist.ifs[vm.hist.last.ip]

\* C22: an If statement runs its then-branch exactly when its condition is truthy and
\* its else-branch exactly when it is falsy, and whichever way it went (truthy, falsy
\* with an else, falsy without one) the condition has been popped at its end: the
\* stack is as deep as before the statement
IfPopsItsCondition ==
    /\ (pc = "run" /\ vm.hist.last.ip \in DOMAIN compiler.hist.ifs) =>
        /\ vm.hist.last.op.name = "JumpIfFalse"
        /\ vm.ip = IF is_truthy(vm.hist.last.stack[Len(vm.hist.last.stack)])
                   THEN Tested.then ELSE Tested.else
    /\ \A i \in 1..Len(vm.hist.closed) :
        vm.hist.closed[i].kind = "Stmt::If" =>
            vm.hist.closed[i].exit = vm.hist.closed[i].entry

\* C23: when the VM is about to execute a GetLocal(i) or SetLocal(i) of a compiled
\* chunk, stack slot i holds the current value of the local that access was resolved
\* to; and when a local's initial value has just been computed, as many values lie
\* below it as the local's position in Locals
LocalSlotHoldsItsLocal ==
    /\ (pc = "run" /\ Fetched.ok /\ Fetched.op.name \in {"GetLocal", "SetLocal"}
            /\ vm.ip \in DOMAIN compiler.hist.refs) =>
        /\ Fetched.op.arg = compiler.hist.refs[vm.ip].index
        /\ Fetched.op.arg < Len(vm.stack)
        /\ compiler.hist.refs[vm.ip].id \in DOMAIN vm.hist.values
        /\ vm.stack[Fetched.op.arg + 1] = vm.hist.values[compiler.hist.refs[vm.ip].id]
    /\ (pc = "run" /\ vm.ip \in DOMAIN compiler.hist.decl_at) =>
        Len(vm.stack) - 1 = compiler.hist.slots[compiler.hist.decl_at[vm.ip]]

\* the While statement whose JumpIfFalse the VM has just executed
Looped == compiler.hist.loops[vm.hist.last.ip]

\* C24: the backward Jump that ends a While body continues at loop_start, the first
\* byte of the condition, without overflow; after each evaluation of the condition the
\* body is entered when it is truthy and the loop is left when it is falsy; and a
\* loop that has been left has popped its condition: the stack is as deep as before
WhileLoopsBackToItsCondition ==
    /\ \A t \in DOMAIN compiler.hist.loops :
        (pc \in {"run", "done"} /\ vm.hist.last.op.name = "Jump"
                /\ vm.hist.last.ip = compiler.hist.loops[t].back) =>
            /\ vm.result = Running
            /\ vm.ip = compiler.hist.loops[t].start
            /\ vm.ip = vm.hist.last.ip + vm.hist.last.op.arg
    /\ (pc = "run" /\ vm.hist.last.ip \in DOMAIN compiler.hist.loops) =>
        /\ vm.hist.last.op.name = "JumpIfFalse"
        /\ vm.ip = IF is_truthy(vm.hist.last.stack[Len(vm.hist.last.stack)])
                   THEN Looped.body ELSE Looped.exit
    /\ \A i \in 1..Len(vm.hist.closed) :
        vm.hist.closed[i].kind = "Stmt::While" =>
            vm.hist.closed[i].exit = vm.hist.closed[i].entry

\* the Logical expression whose JumpIfFalse the VM has just executed
Decided == compiler.hist.logicals[vm.hist.last.ip]

\* the value of a literal
Literal(e) ==
    CASE e.k = "Expr::Boolean" -> Boolean(e.bool)
      [] e.k = "Expr::Nil" -> Nil
      [] e.k = "Expr::Number" -> Number(e.num)
      [] e.k = "Expr::String" -> new_string(e.str)

\* what `or` and `and` are to yield: the left value when it decides, else the right
RECURSIVE ShortCircuit(_)
ShortCircuit(e) ==
    CASE e.k = "Expr::Grouping" -> ShortCircuit(e.kids[1])
      [] e.k = "Expr::Assign" -> ShortCircuit(e.kids[1])
      [] e.k = "Expr::Logical" ->
            IF is_truthy(ShortCircuit(e.kids[1])) <=> e.tok = "Or"
            THEN ShortCircuit(e.kids[1]) ELSE ShortCircuit(e.kids[2])
      [] OTHER -> Literal(e)

\* C25: after the left operand of a Logical expression the right operand's code is
\* entered exactly when the left value does not decide (falsy for `or`, truthy for
\* `and`); a deciding left value is carried to the end of the expression untouched;
\* whichever way it went the expression has left exactly one value above what was
\* there, the left value when it decided and the right value otherwise
LogicalShortCircuits ==
    /\ (pc = "run" /\ vm.hist.last.ip \in DOMAIN compiler.hist.logicals) =>
        /\ vm.hist.last.op.name = "JumpIfFalse"
        /\ vm.stack = vm.hist.last.stack
        /\ vm.ip = IF is_truthy(vm.stack[Len(vm.stack)]) <=> Decided.tok = "Or"
                   THEN (IF Decided.tok = "Or" THEN vm.hist.last.ip + 3 ELSE Decided.end)
                   ELSE Decided.right
    /\ (pc = "run" /\ vm.hist.last.op.name = "Jump"
            /\ vm.hist.last.ip - 3 \in DOMAIN compiler.hist.logicals) =>
        /\ vm.stack = vm.hist.last.stack
        /\ vm.ip = compiler.hist.logicals[vm.hist.last.ip - 3].end
    /\ \A i \in 1..Len(vm.hist.closed) :
        vm.hist.closed[i].kind = "Expr::Logical" =>
            vm.hist.closed[i].exit = vm.hist.closed[i].entry + 1
    /\ (pc = "done" /\ program \in LogicalPrints) =>
        vm.output = <<to_string(ShortCircuit(program[1].kids[1]))>>
    /\ (pc = "done" /\ program \in LogicalAssigns) =>
        LET e == program[2].kids[1]
            left == ShortCircuit(e.kids[1])
        IN vm.output = <<to_string(ShortCircuit(e)),
                         IF is_truthy(left) <=> e.tok = "Or" THEN "1" ELSE "2">>

\* `print false and 2 or (nil or 3);` has printed 3: the `and` was decided by its
\* left operand, the two `or` were not
LogicalWitness ==
    /\ pc = "done"
    /\ program = <<SPrint(ELogical(ELogical(EBoolean(1, FALSE), "And", 1, ENumber(1, 2)),
                                   "Or", 1,
                                   EGrouping(ELogical(ENil(1), "Or", 1, ENumber(1, 3)))))>>
    /\ vm.output = <<"3">>
    /\ Cardinality(DOMAIN compiler.hist.logicals) = 3

\* the code of the expression statements of the chunk
ExpressionStatementCode == {b \in compiler.hist.blocks : b.kind = "Stmt::Expression"}

\* C26: the code of an expression, run from its first instruction to its end, has
\* left exactly one value more than it found; the code of an expression statement is
\* the code of its expression and one Pop, with no Print in it, and run to its end
\* it has left the stack as deep as it found it; a unit made of expression statements
\* only writes nothing, and unless it faults it ends with the stack empty
ExpressionsPushOneValue ==
    /\ \A i \in 1..Len(vm.hist.closed) :
        /\ vm.hist.closed[i].kind = "Expr" =>
            vm.hist.closed[i].exit = vm.hist.closed[i].entry + 1
        /\ vm.hist.closed[i].kind = "Stmt::Expression" =>
            /\ vm.hist.closed[i].exit = vm.hist.closed[i].entry
            /\ vm.hist.last.op.name = "Pop"
            /\ vm.hist.last.ip = vm.hist.closed[i].end - 1
    /\ pc \in {"run", "done"} =>
        \A b \in ExpressionStatementCode :
            /\ [kind |-> "Expr", start |-> b.start, end |-> b.end - 1]
                    \in compiler.hist.blocks
            /\ compiler.hist.emitted[b.end - 1].op = "Pop"
            /\ \A p \in DOMAIN compiler.hist.emitted :
                (b.start <= p /\ p < b.end) => compiler.hist.emitted[p].op # "Print"
    /\ (pc = "done" /\ \A i \in 1..Len(program) : program[i].k = "Stmt::Expression") =>
        /\ vm.output = <<>>
        /\ vm.result.kind # "Runtime" => vm.stack = <<>>

\* `1 <= (-2); "x" and 2 / 0;` has run to the end of the chunk: both expression
\* statements were run, and the stack is empty
ExpressionWitness ==
    /\ pc = "done"
    /\ program = <<SExpression(EBinary(ENumber(1, 1), "LessEqual", 1,
                                       EGrouping(EUnary("Minus", 1, ENumber(1, 2))))),
                   SExpression(ELogical(EString(1, "x"), "And", 1,
                                        EBinary(ENumber(1, 2), "Slash", 1, ENumber(1, 0))))>>
    /\ vm.result = DecodeError("EOF")
    /\ vm.stack = <<>>
    /\ Cardinality(ExpressionStatementCode) = 2
    /\ vm.ip = chunk_len(chunk)

\* the offsets of the instructions of the chunk that name a global
GlobalOps ==
    {p \in DOMAIN chunk.lines :
        chunk_decode(chunk, p).op.name \in {"GetGlobal", "DefineGlobal", "SetGlobal"}}

\* the constant-pool index the instruction at offset p names its global with
NameIndex(p) == chunk_decode(chunk, p).op.arg

\* C31: the declarations, reads and assignments of one global name in a compiled
\* chunk all refer to one constant-pool entry, so that the pool entries used for
\* global names are as many as the distinct global names
GlobalNamesAreInterned ==
    pc \in {"run", "done"} =>
        /\ \A p \in GlobalOps : \A q \in GlobalOps :
            GlobalName(chunk_decode(chunk, p).op) = GlobalName(chunk_decode(chunk, q).op)
                => NameIndex(p) = NameIndex(q)
        /\ Cardinality({NameIndex(p) : p \in GlobalOps})
                = Cardinality({GlobalName(chunk_decode(chunk, p).op) : p \in GlobalOps})

\* a list of scope depths is in non-decreasing order and lies within 1..depth
OrderedWithin(depths, depth) ==
    /\ \A i \in 1..(Len(depths) - 1) : depths[i] <= depths[i + 1]
    /\ \A i \in 1..Len(depths) : 1 <= depths[i] /\ depths[i] <= depth

\* C34: whenever a method of the compiler has returned during a compilation
\* (begin_scope, end_scope, the declaration of a local, the compilation of a
\* statement), the locals are listed by non-decreasing scope depth, every
\* local's scope depth lies between 1 and the compiler's scope depth, and the
\* scope depth is the number of blocks being compiled; and once compile has
\* returned Ok the scope depth is 0 and the list of locals is empty
LocalsFollowTheScopes ==
    /\ \A pt \in compiler.hist.points :
          /\ OrderedWithin(pt.depths, pt.scope_depth)
          /\ pt.scope_depth = pt.enclosing
    /\ compiler.err = "" => compiler.scope_depth = 0 /\ compiler.locals = <<>>

\* C34 witness: compile has returned Ok for a statement in which two locals of
\* different depths were listed together, inside a block within a block
ScopesWitness ==
    /\ compiler.err = ""
    /\ compiler.done >= 1
    /\ compiler.locals = <<>>
    /\ \E pt \in compiler.hist.points :
          /\ pt.scope_depth = 2
          /\ \E i, j \in 1..Len(pt.depths) : pt.depths[i] = 1 /\ pt.depths[j] = 2

(***************************************************************************)
(* SpecPool: a Chunk's constant pool is filled through add_constant, and   *)
(* statements are compiled into the chunk when the pool is almost full.    *)
(***************************************************************************)
\* the streams of values offered to add_constant are numbered 0..MaxSeed
MaxSeed == 2

\* statements are compiled once the pool is within this many values of its capacity
PoolSlack == 2

\* at most this many statements are compiled into the chunk
MaxCompiles == 3

\* the value the stream offers when the pool holds i values
OfferedValue(sd, i) ==
    CASE (sd + i) % 3 = 0 -> Number(i)
      [] (sd + i) % 3 = 1 -> new_string("s")
      [] OTHER -> Boolean(i % 2 = 0)

\* statements whose code needs one constant: a number, a string, a global's name
PoolStatements ==
    {SPrint(ENumber(1, 7)), SPrint(EString(1, "t")), SVarNil("g", 1),
     SExpression(EVar("g", 1))}

InitPool ==
    /\ interp = NoInterp
    /\ scanner = NoScanner
    /\ pc = "pool"
    /\ op = NoOp
    /\ bytes = <<>>
    /\ decoded = NoDecoded
    /\ chunk = EmptyChunk
    /\ adds = <<>>
    /\ call = NoCall
    /\ seed \in 0..MaxSeed
    /\ program = NoProgram
    /\ compiler = NoCompiler
    /\ vm = NoVM

\* chunk.add_constant(value)
PoolAddConstant ==
    /\ pc = "pool"
    /\ LET value == OfferedValue(seed, Len(chunk.constants))
           r == add_constant(chunk, value)
       IN /\ chunk' = r.chunk
          /\ adds' = IF r.ok THEN Append(adds, value) ELSE adds
          /\ call' = [fn |-> "add_constant", ok |-> r.ok, index |-> r.index,
                      value |-> value, before |-> chunk]
    /\ UNCHANGED <<interp, scanner, pc, op, bytes, decoded, seed, program, compiler, vm>>

\* Compiler::new(&mut chunk).compile(vec![stmt])
PoolCompile ==
    /\ pc = "pool"
    /\ Len(chunk.constants) + PoolSlack >= MaxConstants
    /\ compiler.done < MaxCompiles
    /\ \E stmt \in PoolStatements :
        \E cs \in {compile(NewCompiler(chunk), <<stmt>>)} :
        /\ chunk' = cs.chunk
        /\ compiler' = [cs EXCEPT !.chunk = <<>>] @@ [done |-> compiler.done + 1]
        /\ adds' = IF cs.err = "" THEN Append(adds, cs.chunk.constants[Len(cs.chunk.constants)])
                   ELSE adds
        /\ call' = [fn |-> "compile", ok |-> cs.err = "", index |-> 0,
                    value |-> Nil, before |-> chunk]
    /\ UNCHANGED <<interp, scanner, pc, op, bytes, decoded, seed, program, vm>>

NextPool == PoolAddConstant \/ PoolCompile

SpecPool == InitPool /\ [][NextPool]_vars

\* C7: add_constant succeeds while the pool holds fewer than 255 values, returning
\* the indices 0..254 in insertion order; each value is read back unchanged through
\* constant(index); every later add_constant fails and leaves the pool as it was,
\* and compile reports that failure as TooManyConstants
PoolHoldsTwoHundredFiftyFive ==
    /\ Len(chunk.constants) <= 255
    /\ Len(chunk.constants) = Len(adds)
    /\ \A index \in U8 :
        IF index < Len(adds)
        THEN constant(chunk, index).ok /\ constant(chunk, index).value = adds[index + 1]
        ELSE ~constant(chunk, index).ok
    /\ call.fn = "add_constant" =>
        IF Len(call.before.constants) < 255
        THEN /\ call.ok
             /\ call.index = Len(call.before.constants)
             /\ chunk.constants = Append(call.before.constants, call.value)
        ELSE ~call.ok /\ chunk = call.before
    /\ call.fn = "compile" =>
        IF Len(call.before.constants) < 255
        THEN call.ok /\ Len(chunk.constants) = Len(call.before.constants) + 1
        ELSE /\ ~call.ok
             /\ compiler.err = "TooManyConstants"
             /\ chunk.constants = call.before.constants

\* the 255th value went in at index 254, and a statement compiled after it failed
PoolWitness ==
    /\ Len(chunk.constants) = 255
    /\ constant(chunk, 254).ok
    /\ constant(chunk, 254).value = Number(254)
    /\ call.fn = "compile"
    /\ compiler.err = "TooManyConstants"

(***************************************************************************)
(* SpecStep: one iteration of the loop of VM::run, on a chunk holding one  *)
(* instruction, from every small stack and globals table.                  *)
(***************************************************************************)
\* the stack holds at most this many values before the instruction
MaxDepth == 2

\* the source line the instruction is recorded with
StepLine == 3

\* the values on the stack and in the globals table
StepValues ==
    {Nil, Boolean(TRUE), Boolean(FALSE), Number(0), Number(2), Number(-3), Float(1, 2),
     Float(1, 0), Float(0, 0), new_string(""), new_string("a")}

\* the constant pool of the chunk: two names and a number
StepConstants == <<new_string("g"), new_string("h"), Number(2)>>

\* the instructions, with operands inside and outside the stack and the pool
StepOps ==
    {Op(name, 0) : name \in PlainOps}
        \cup {Op(name, arg) : name \in {"Constant", "GetLocal", "SetLocal", "GetGlobal",
                                        "DefineGlobal", "SetGlobal"}, arg \in {0, 1, 2, 3}}
        \cup {Op("Jump", 5), Op("JumpIfFalse", 5), Op("Unknown", 200)}

\* the stacks of at most n of the values
RECURSIVE Stacks(_)
Stacks(n) ==
    IF n = 0 THEN {<<>>}
    ELSE Stacks(n - 1) \cup {Append(st, x) : st \in Stacks(n - 1), x \in StepValues}

InitStep ==
    /\ interp = NoInterp
    /\ scanner = NoScanner
    /\ pc = "ready"
    /\ op \in StepOps
    /\ bytes = <<>>
    /\ decoded = NoDecoded
    /\ chunk = add([EmptyChunk EXCEPT !.constants = StepConstants], op, StepLine).chunk
    /\ adds = <<>>
    /\ call = NoCall
    /\ seed = 0
    /\ program = NoProgram
    /\ compiler = NoCompiler
    /\ \E st \in Stacks(MaxDepth), g \in {<<>>} \cup {"g" :> x : x \in {Nil, Number(2)}} :
        vm = [NewVM(FALSE) EXCEPT !.stack = st, !.globals = g]

\* one iteration of the loop of VM::run
Step ==
    /\ pc = "ready"
    /\ vm' = step(chunk, vm)
    /\ call' = [fn |-> "step", before |-> vm]
    /\ pc' = "stepped"
    /\ UNCHANGED <<interp, scanner, op, bytes, decoded, chunk, adds, seed, program, compiler>>

NextStep == Step

SpecStep == InitStep /\ [][NextStep]_vars

\* the instruction op has been executed on a stack that held at least n values
Stepped(names, n) ==
    pc = "stepped" /\ op.name \in names /\ Len(call.before.stack) >= n

\* the value that was k places below the top before the instruction
Operand(k) == call.before.stack[Len(call.before.stack) - k]

\* the instruction went through: the top n values were replaced by result, and the
\* loop goes on at the next instruction
Replaced(n, result) ==
    /\ vm.result = Running
    /\ vm.stack = Append(SubSeq(call.before.stack, 1, Len(call.before.stack) - n), result)
    /\ vm.ip = byte_length(op)
    /\ vm.globals = call.before.globals

\* the instruction failed with Runtime(line, e) and changed nothing
Faulted(e) ==
    /\ vm.result = Runtime(StepLine, e, "", 0)
    /\ vm.stack = call.before.stack
    /\ vm.globals = call.before.globals

\* the denominator of a Number that is not infinite or NaN
Den(x) == IF x.d < 0 THEN 1 ELSE x.d

\* result is what the numeric opcode name makes of left and right, in the arithmetic
\* of fractions: a quotient by zero is infinite or NaN, and what is computed from an
\* infinity or NaN is a Number, or a Boolean for a comparison
IsResultOf(result, name, left, right) ==
    IF left.d = 0 \/ right.d = 0
    THEN result.t = (IF name \in {"Greater", "Less"} THEN "Boolean" ELSE "Number")
    ELSE CASE name = "Greater" ->
                result = Boolean(left.n * Den(right) > right.n * Den(left))
           [] name = "Less" ->
                result = Boolean(left.n * Den(right) < right.n * Den(left))
           [] name = "Subtract" ->
                /\ result.t = "Number" /\ result.d # 0
                /\ result.n * Den(left) * Den(right)
                        = (left.n * Den(right) - right.n * Den(left)) * Den(result)
           [] name = "Multiply" ->
                /\ result.t = "Number" /\ result.d # 0
                /\ result.n * Den(left) * Den(right) = left.n * right.n * Den(result)
           [] name = "Divide" ->
                /\ result.t = "Number"
                /\ IF right.n = 0 THEN result.d = 0
                   ELSE /\ result.d # 0
                        /\ result.n * Den(left) * right.n = left.n * Den(right) * Den(result)

\* C12: Subtract, Multiply, Divide, Greater and Less replace [.., left, right] by
\* left op right, the top of the stack being the right operand; Negate replaces the
\* top v by -v; with an operand that is no Number they fail with
\* Runtime(line, ExpectedNumber)
NumberOpsTakeTopAsRight ==
    /\ Stepped({"Subtract", "Multiply", "Divide", "Greater", "Less"}, 2) =>
        IF IsNumber(Operand(1)) /\ IsNumber(Operand(0))
        THEN /\ Replaced(2, vm.stack[Len(vm.stack)])
             /\ IsResultOf(vm.stack[Len(vm.stack)], op.name, Operand(1), Operand(0))
        ELSE Faulted("ExpectedNumber")
    /\ Stepped({"Negate"}, 1) =>
        IF IsNumber(Operand(0))
        THEN /\ Replaced(1, vm.stack[Len(vm.stack)])
             /\ vm.stack[Len(vm.stack)].t = "Number"
             /\ vm.stack[Len(vm.stack)].n = 0 - Operand(0).n
             /\ IsNaN(vm.stack[Len(vm.stack)]) = IsNaN(Operand(0))
             /\ ~IsNaN(Operand(0)) =>
                    SignBit(vm.stack[Len(vm.stack)]) = ~SignBit(Operand(0))
        ELSE Faulted("ExpectedNumber")

\* 2 - (-3) was computed as 5, not as -5
NumberOpsWitness ==
    /\ Stepped({"Subtract"}, 2)
    /\ Operand(1) = Number(2)
    /\ Operand(0) = Number(-3)
    /\ vm.stack = <<Number(5)>>

\* C13: Add on [.., left, right]: two Numbers give their sum; otherwise, if either is
\* a String, the String display(left) followed by display(right); otherwise a
\* Runtime error with the stack as it was.  On success the result replaces both.
AddIsPolymorphic ==
    Stepped({"Add"}, 2) =>
        IF IsNumber(Operand(1)) /\ IsNumber(Operand(0))
        THEN /\ Replaced(2, vm.stack[Len(vm.stack)])
             /\ vm.stack[Len(vm.stack)].t = "Number"
             /\ (Operand(1).d # 0 /\ Operand(0).d # 0) =>
                    /\ vm.stack[Len(vm.stack)].d # 0
                    /\ vm.stack[Len(vm.stack)].n * Den(Operand(1)) * Den(Operand(0))
                        = (Operand(1).n * Den(Operand(0)) + Operand(0).n * Den(Operand(1)))
                            * Den(vm.stack[Len(vm.stack)])
        ELSE IF IsString(Operand(1)) \/ IsString(Operand(0))
        THEN Replaced(2, new_string(to_string(Operand(1)) \o to_string(Operand(0))))
        ELSE Faulted("InvalidAdditionArguments")

\* 0.5 + "a" gave "0.5a": the Number on the left was displayed
AddWitness ==
    /\ Stepped({"Add"}, 2)
    /\ Operand(1) = Float(1, 2)
    /\ Operand(0) = new_string("a")
    /\ vm.stack = <<new_string("0.5a")>>
    /\ vm.result = Running

\* the two falsy values
Falsy(value) == value = Nil \/ value = Boolean(FALSE)

\* C19: Nil and Boolean(false) are falsy and every other value is truthy, 0 and the
\* empty string too; Not replaces the top of the stack with Boolean(not truthy(top));
\* JumpIfFalse jumps exactly when the top of the stack is falsy, and does not pop it
TruthinessDecidesNotAndJumpIfFalse ==
    /\ Stepped({"Not"}, 1) => Replaced(1, Boolean(Falsy(Operand(0))))
    /\ Stepped({"JumpIfFalse"}, 1) =>
        /\ vm.result = Running
        /\ vm.stack = call.before.stack
        /\ vm.globals = call.before.globals
        /\ vm.ip = IF Falsy(Operand(0)) THEN op.arg ELSE byte_length(op)

\* JumpIfFalse found the empty string on top of 0, went on to the next instruction,
\* and left both on the stack
TruthinessWitness ==
    /\ Stepped({"JumpIfFalse"}, 2)
    /\ vm.stack = <<Number(0), new_string("")>>
    /\ vm.ip = 3
    /\ vm.result = Running

\* the stack before the instruction
Frame == call.before.stack

\* C27: GetLocal(i) with slot i on the stack pushes the value of slot i and changes
\* no slot that was there; SetLocal(i) with slot i on the stack puts the top value
\* into slot i, changes no other slot, and leaves the top value and the depth as
\* they were; both go on to the next instruction and leave the globals alone
LocalOpsTouchOneSlot ==
    /\ (Stepped({"GetLocal"}, 0) /\ op.arg < Len(Frame)) =>
        /\ vm.result = Running
        /\ Len(vm.stack) = Len(Frame) + 1
        /\ vm.stack[Len(vm.stack)] = Frame[op.arg + 1]
        /\ \A k \in 1..Len(Frame) : vm.stack[k] = Frame[k]
        /\ vm.ip = byte_length(op)
        /\ vm.globals = call.before.globals
    /\ (Stepped({"SetLocal"}, 1) /\ op.arg < Len(Frame)) =>
        /\ vm.result = Running
        /\ Len(vm.stack) = Len(Frame)
        /\ vm.stack[op.arg + 1] = Operand(0)
        /\ \A k \in 1..Len(Frame) : k # op.arg + 1 => vm.stack[k] = Frame[k]
        /\ vm.stack[Len(vm.stack)] = Operand(0)
        /\ vm.ip = byte_length(op)
        /\ vm.globals = call.before.globals

\* SetLocal(0) on [nil, "a"] has made the stack ["a", "a"]
LocalOpsWitness ==
    /\ Stepped({"SetLocal"}, 2)
    /\ op.arg = 0
    /\ Frame = <<Nil, new_string("a")>>
    /\ vm.stack = <<new_string("a"), new_string("a")>>

\* C32: whatever instruction the chunk holds and whatever the stack, an iteration of
\* the loop of run either goes on or ends run with Ok or a VMError value: the process
\* is never aborted by an index out of bounds or an arithmetic overflow
StepFailsSafely ==
    pc = "stepped" =>
        vm.result.kind \in {"running", "Ok", "Decode", "InvalidOpCode", "InvalidConstant",
                            "StackTooSmall", "Runtime"}

\* C33: when an iteration of the loop of run ends run with a VMError, the stack, the
\* globals table and ip are as they were before the instruction was decoded
FailedInstructionChangesNothing ==
    (pc = "stepped" /\ vm.result.kind \in {"Decode", "InvalidOpCode", "InvalidConstant",
                                           "StackTooSmall", "Runtime"}) =>
        /\ vm.stack = call.before.stack
        /\ vm.globals = call.before.globals
        /\ vm.ip = call.before.ip

(***************************************************************************)
(* SpecLocals: the statement loop of a Block arm, taken up where the block  *)
(* has declared almost as many locals as one byte can number.               *)
(***************************************************************************)
\* the block is taken up within this many declarations of std::u8::MAX
LocalSlack == 2

\* var v1; var v2; ... the declarations the block opens with
Opening(n) == [i \in 1..n |-> SVarNil("v" \o ToString(i), i)]

\* the compiler after begin_scope and the statements of Opening(n), written out:
\* each statement has added one Nil on its line and pushed one local of depth 1
Opened(n) ==
    [NewCompiler([code |-> [i \in 1..n |-> OP_NIL],
                  lines |-> [offset \in 0..(n - 1) |-> offset + 1],
                  constants |-> <<>>])
     EXCEPT !.scope_depth = 1,
            !.hist.enclosing = 1,
            !.locals = [i \in 1..n |->
                            [name |-> "v" \o ToString(i), scope_depth |-> 1, id |-> i - 1]],
            !.hist.next_id = n,
            !.hist.decl_at = [offset \in 1..n |-> offset - 1],
            !.hist.slots = [id \in 0..(n - 1) |-> id],
            !.hist.emitted = [offset \in 0..(n - 1) |-> [op |-> "Nil", line |-> offset + 1]]]

\* the statements the loop goes on with: declarations of a new and of a declared
\* name, reads and writes of the first and the last locals, and inner blocks
LocalStatements ==
    {SVarNil("a", 1), SVar("b", 1, ENumber(1, 1)), SVarNil("v1", 1),
     SPrint(EVar("v1", 1)),
     SPrint(EVar("v" \o ToString(U8Max - LocalSlack), 1)),
     SPrint(EVar("a", 1)),
     SExpression(EAssign("a", 1, ENil(1))),
     SExpression(EAssign("v" \o ToString(U8Max - LocalSlack), 1, ENil(1))),
     SBlock(<<SVarNil("v1", 1), SPrint(EVar("v1", 1))>>),
     SBlock(<<SVarNil("c", 1), SVarNil("d", 1), SExpression(EAssign("d", 1, EVar("c", 1)))>>),
     SBlock(<<SVarNil("c", 1), SBlock(<<SVarNil("e", 1), SPrint(EVar("e", 1))>>),
              SPrint(EVar("c", 1))>>)}

InitLocals ==
    /\ interp = NoInterp
    /\ scanner = NoScanner
    /\ pc = "block"
    /\ op = NoOp
    /\ bytes = <<>>
    /\ decoded = NoDecoded
    /\ adds = <<>>
    /\ call = NoCall
    /\ seed \in 0..LocalSlack
    /\ program = NoProgram
    /\ compiler = Opened(U8Max - seed) @@ [done |-> 0]
    /\ chunk = compiler.chunk
    /\ vm = NoVM

\* self.compile_stmt(stmt)? in the loop of the Block arm
LocalsCompile ==
    /\ pc = "block"
    /\ compiler.done < MaxCompiles
    /\ \E stmt \in LocalStatements :
        \E cs \in {compile_stmt(compiler, stmt)} :
        /\ compiler' = [cs EXCEPT !.done = @ + 1]
        /\ chunk' = cs.chunk
        /\ call' = [fn |-> "compile_stmt", stmt |-> stmt, before |-> compiler]
        /\ pc' = IF cs.err = "" THEN "block" ELSE "failed"
    /\ UNCHANGED <<interp, scanner, op, bytes, decoded, adds, seed, program, vm>>

NextLocals == LocalsCompile

SpecLocals == InitLocals /\ [][NextLocals]_vars

\* the position in locals of the innermost variable of a name, counted from 0
LastPosition(locals, name) ==
    (CHOOSE i \in 1..Len(locals) :
        /\ locals[i].name = name
        /\ \A j \in (i + 1)..Len(locals) : locals[j].name # name) - 1

Declared(locals, name) == \E i \in 1..Len(locals) : locals[i].name = name

\* C16: there are never more than 255 live locals: a declaration met while 255 are
\* live fails with TooManyLocals and leaves the locals as they were, so the operand
\* of every GetLocal and SetLocal emitted is the variable's position in the locals,
\* not truncated, and at most 254
LocalsFitOneByte ==
    pc \in {"block", "failed"} =>
        /\ Len(compiler.locals) <= 255
        /\ \A offset \in DOMAIN compiler.hist.refs :
            /\ compiler.hist.refs[offset].index <= 254
            /\ chunk_decode(chunk, offset).op.arg = compiler.hist.refs[offset].index
        /\ call.fn = "compile_stmt" =>
            /\ (call.stmt.k = "Stmt::Var" /\ Len(call.before.locals) = 255) =>
                    /\ compiler.err = "TooManyLocals"
                    /\ compiler.locals = call.before.locals
            /\ (call.stmt.k = "Stmt::Var" /\ Len(call.before.locals) < 255
                    /\ ~Declared(call.before.locals, call.stmt.name)) =>
                    /\ compiler.err = ""
                    /\ Len(compiler.locals) = Len(call.before.locals) + 1
            /\ (call.stmt.k = "Stmt::Print" /\ Declared(call.before.locals, call.stmt.kids[1].name)) =>
                    chunk_decode(chunk, chunk_len(call.before.chunk)).op =
                        Op("GetLocal", LastPosition(call.before.locals, call.stmt.kids[1].name))
            /\ (call.stmt.k = "Stmt::Expression"
                    /\ Declared(call.before.locals, call.stmt.kids[1].name)) =>
                    chunk_decode(chunk, chunk_len(call.before.chunk) + 1).op =
                        Op("SetLocal", LastPosition(call.before.locals, call.stmt.kids[1].name))
            /\ (call.stmt.k = "Stmt::Block" /\ compiler.err = "") =>
                    /\ Len(call.before.locals) < 255
                    /\ compiler.locals = call.before.locals
                    /\ \E offset \in DOMAIN compiler.hist.refs :
                        /\ offset >= chunk_len(call.before.chunk)
                        /\ compiler.hist.refs[offset].index >= Len(call.before.locals)

\* a declaration was met while 255 locals were live, after the 255th had been read
\* through operand 254
LocalsWitness ==
    /\ pc = "failed"
    /\ call.stmt = SVarNil("a", 1)
    /\ Len(call.before.locals) = 255
    /\ compiler.err = "TooManyLocals"
    /\ \E offset \in DOMAIN compiler.hist.refs :
            chunk_decode(chunk, offset).op = Op("GetLocal", 254)

\* the compiler at the close of the Block just compiled: the scope begun and the
\* statements of the block compiled, end_scope not yet called
AtClose == compile(begin_scope(call.before), call.stmt.kids)

\* the Var statements that are statements of the block itself
DirectVars == {i \in 1..Len(call.stmt.kids) : call.stmt.kids[i].k = "Stmt::Var"}

\* C30: a Block that compiles adds to the code of its statements exactly one Pop for
\* each local declared directly in it, and leaves locals and scope_depth as they were
\* before the block: the locals it removes are the ones on top of the enclosing
\* scopes' locals, which are the ones declared directly in it
BlockClosePopsItsLocals ==
    (pc = "block" /\ call.fn = "compile_stmt" /\ call.stmt.k = "Stmt::Block") =>
        /\ AtClose.err = ""
        /\ AtClose.scope_depth = call.before.scope_depth + 1
        /\ Len(AtClose.locals) = Len(call.before.locals) + Cardinality(DirectVars)
        /\ SubSeq(AtClose.locals, 1, Len(call.before.locals)) = call.before.locals
        /\ \A i \in (Len(call.before.locals) + 1)..Len(AtClose.locals) :
            AtClose.locals[i].scope_depth = AtClose.scope_depth
        /\ compiler.chunk.code =
                AtClose.chunk.code \o [i \in 1..Cardinality(DirectVars) |-> OP_POP]
        /\ compiler.locals = call.before.locals
        /\ compiler.scope_depth = call.before.scope_depth

\* `{ var c; { var e; print e; } print c; }` compiled in a block that has 253 locals:
\* the code ends with the Pop of e, the print of c and the Pop of c, and the 253
\* locals of the enclosing block are left
BlockCloseWitness ==
    /\ pc = "block"
    /\ call.fn = "compile_stmt"
    /\ call.stmt = SBlock(<<SVarNil("c", 1), SBlock(<<SVarNil("e", 1), SPrint(EVar("e", 1))>>),
                            SPrint(EVar("c", 1))>>)
    /\ Len(compiler.locals) = U8Max - 2
    /\ compiler.scope_depth = 1
    /\ SubSeq(compiler.chunk.code, Len(compiler.chunk.code) - 4, Len(compiler.chunk.code))
            = <<OP_POP, OP_GET_LOCAL, U8Max - 2, OP_PRINT, OP_POP>>

(***************************************************************************)
(* SpecDecode: OpCode::decode on byte slices, whole and cut short, and      *)
(* Chunk::decode at every offset of a chunk holding those bytes.            *)
(***************************************************************************)
\* slices are at most this long
MaxSlice == 3

\* the bytes that follow the first byte of a slice
OperandBytes == {0, OP_JUMP, 255}

Slices ==
    {<<>>} \cup
    UNION {{<<tag>> \o rest : tag \in U8, rest \in [1..n -> OperandBytes]} :
                n \in 0..(MaxSlice - 1)}

\* a chunk whose code is bs, each byte added as OpCode::Unknown
RECURSIVE ChunkOf(_)
ChunkOf(bs) ==
    IF bs = <<>> THEN EmptyChunk
    ELSE add(ChunkOf(SubSeq(bs, 1, Len(bs) - 1)), Op("Unknown", bs[Len(bs)]), 0).chunk

InitDecode ==
    /\ interp = NoInterp
    /\ scanner = NoScanner
    /\ pc = "slice"
    /\ op = NoOp
    /\ bytes \in Slices
    /\ decoded = NoDecoded
    /\ chunk = ChunkOf(bytes)
    /\ adds = <<>>
    /\ call = NoCall
    /\ seed = 0
    /\ program = NoProgram
    /\ compiler = NoCompiler
    /\ vm = NoVM

\* OpCode::decode(&bytes)
SliceDecode ==
    /\ pc = "slice"
    /\ decoded' = decode(bytes)
    /\ call' = [fn |-> "OpCode::decode", offset |-> 0]
    /\ pc' = "decoded"
    /\ UNCHANGED <<interp, scanner, op, bytes, chunk, adds, seed, program, compiler, vm>>

\* chunk.decode(offset), for the offsets of the code and two past its end
ChunkDecode ==
    /\ pc = "slice"
    /\ \E offset \in 0..(Len(chunk.code) + 1) :
        /\ decoded' = chunk_decode(chunk, offset)
        /\ call' = [fn |-> "Chunk::decode", offset |-> offset]
    /\ pc' = "decoded"
    /\ UNCHANGED <<interp, scanner, op, bytes, chunk, adds, seed, program, compiler, vm>>

NextDecode == SliceDecode \/ ChunkDecode

SpecDecode == InitDecode /\ [][NextDecode]_vars

\* the encoded width the tag byte stands for
TagWidth(tag) ==
    IF tag \in {OP_CONSTANT, OP_GET_LOCAL, OP_SET_LOCAL, OP_GET_GLOBAL, OP_DEFINE_GLOBAL,
                OP_SET_GLOBAL} THEN 2
    ELSE IF tag \in {OP_JUMP, OP_JUMP_IF_FALSE} THEN 3
    ELSE 1

\* OpCode::decode fails with EOF exactly on the empty slice, with UnexpectedEOF exactly
\* when the slice is shorter than its tag's width, and yields (Unknown(b), 1) for
\* every tag byte b that is not assigned
SliceDecodedAsStated ==
    call.fn = "OpCode::decode" =>
        /\ (~decoded.ok /\ decoded.err = "EOF") <=> bytes = <<>>
        /\ (~decoded.ok /\ decoded.err = "UnexpectedEOF") <=>
                (bytes # <<>> /\ Len(bytes) < TagWidth(bytes[1]))
        /\ (bytes # <<>> /\ Len(bytes) >= TagWidth(bytes[1])) =>
                decoded.ok /\ decoded.len = TagWidth(bytes[1])
        /\ (bytes # <<>> /\ bytes[1] \notin AssignedTags) =>
                decoded = DecodeOk(Op("Unknown", bytes[1]), 1)

\* C17 as stated: that, and Chunk.decode(offset) returns EOF when offset >= the chunk's
\* length and otherwise the decoded opcode with next offset = offset + bytes consumed
DecodeAtEveryOffset ==
    /\ SliceDecodedAsStated
    /\ call.fn = "Chunk::decode" =>
        IF call.offset >= Len(chunk.code)
        THEN ~decoded.ok /\ decoded.err = "EOF"
        ELSE /\ decoded.ok
             /\ decoded.op = decode(SubSeq(chunk.code, call.offset + 1, Len(chunk.code))).op
             /\ decoded.len = call.offset + TagWidth(chunk.code[call.offset + 1])

\* C17, amended: Chunk.decode(offset) with offset below the chunk's length returns the
\* decoded opcode and offset + bytes consumed when the code from offset on is at least
\* as long as its tag's width, and fails with UnexpectedEOF when it is shorter
DecodeAtOffsetsOfWholeInstructions ==
    /\ SliceDecodedAsStated
    /\ call.fn = "Chunk::decode" =>
        IF call.offset >= Len(chunk.code)
        THEN ~decoded.ok /\ decoded.err = "EOF"
        ELSE IF Len(chunk.code) - call.offset < TagWidth(chunk.code[call.offset + 1])
        THEN ~decoded.ok /\ decoded.err = "UnexpectedEOF"
        ELSE /\ decoded.ok
             /\ decoded.op = decode(SubSeq(chunk.code, call.offset + 1, Len(chunk.code))).op
             /\ decoded.len = call.offset + TagWidth(chunk.code[call.offset + 1])

\* Chunk.decode was called on the operand byte of a Constant(0) that ends the chunk
DecodeWitness ==
    /\ call.fn = "Chunk::decode"
    /\ chunk.code = <<OP_CONSTANT, 0>>
    /\ call.offset = 1
    /\ decoded = DecodeErr("UnexpectedEOF", 1)

(***************************************************************************)
(* SpecStack: the stack of a VM driven through push, pop, peek and drop.    *)
(***************************************************************************)
\* the values pushed
PushedValues == {Nil, Boolean(TRUE), Number(0), Number(2), new_string("a")}

InitStack ==
    /\ interp = NoInterp
    /\ scanner = NoScanner
    /\ pc = "stack"
    /\ op = NoOp
    /\ bytes = <<>>
    /\ decoded = NoDecoded
    /\ chunk = EmptyChunk
    /\ adds = <<>>
    /\ call = NoCall
    /\ seed = 0
    /\ program = NoProgram
    /\ compiler = NoCompiler
    /\ vm = NewVM(FALSE)

\* self.push(value)
StackPush ==
    /\ pc = "stack"
    /\ Len(vm.stack) <= MaxDepth
    /\ \E value \in PushedValues :
        /\ vm' = push(vm, value)
        /\ call' = [fn |-> "push", n |-> 0, ok |-> TRUE, value |-> value, before |-> vm.stack]
    /\ UNCHANGED <<interp, scanner, pc, op, bytes, decoded, chunk, adds, seed, program, compiler>>

\* self.pop()
StackPop ==
    /\ pc = "stack"
    /\ \E r \in {pop(vm)} :
        /\ vm' = r.vm
        /\ call' = [fn |-> "pop", n |-> 1, ok |-> r.ok, value |-> r.value, before |-> vm.stack]
    /\ UNCHANGED <<interp, scanner, pc, op, bytes, decoded, chunk, adds, seed, program, compiler>>

\* self.peek(n)
StackPeek ==
    /\ pc = "stack"
    /\ \E n \in 0..(MaxDepth + 2) :
        \E r \in {peek_result(vm, n)} :
        /\ vm' = r.vm
        /\ call' = [fn |-> "peek", n |-> n, ok |-> r.ok, value |-> r.value, before |-> vm.stack]
    /\ UNCHANGED <<interp, scanner, pc, op, bytes, decoded, chunk, adds, seed, program, compiler>>

\* self.drop(n)
StackDrop ==
    /\ pc = "stack"
    /\ \E n \in 0..(MaxDepth + 2) :
        \E r \in {drop_result(vm, n)} :
        /\ vm' = r.vm
        /\ call' = [fn |-> "drop", n |-> n, ok |-> r.ok, value |-> r.value, before |-> vm.stack]
    /\ UNCHANGED <<interp, scanner, pc, op, bytes, decoded, chunk, adds, seed, program, compiler>>

NextStack == StackPush \/ StackPop \/ StackPeek \/ StackDrop

SpecStack == InitStack /\ [][NextStack]_vars

\* the first n values of a stack, from the bottom
Bottom(stack, n) == [i \in 1..n |-> stack[i]]

\* C18: pop, peek(n) and drop(n) fail with StackTooSmall exactly when the stack is
\* empty, n >= its size and n > its size, and leave the stack as it was; otherwise pop
\* removes the top, peek(n) returns the value n below the top and changes nothing,
\* and drop(n) removes the top n values
StackOperationsCheckDepth ==
    /\ call.fn = "pop" =>
        IF call.before = <<>> THEN ~call.ok /\ vm.stack = call.before
        ELSE /\ call.ok
             /\ call.value = call.before[Len(call.before)]
             /\ vm.stack = Bottom(call.before, Len(call.before) - 1)
    /\ call.fn = "peek" =>
        /\ vm.stack = call.before
        /\ IF call.n >= Len(call.before) THEN ~call.ok
           ELSE call.ok /\ call.value = call.before[Len(call.before) - call.n]
    /\ call.fn = "drop" =>
        IF call.n > Len(call.before) THEN ~call.ok /\ vm.stack = call.before
        ELSE call.ok /\ vm.stack = Bottom(call.before, Len(call.before) - call.n)

\* drop(2) emptied a stack of two values
StackWitness ==
    /\ call.fn = "drop"
    /\ call.n = 2
    /\ call.ok
    /\ call.before = <<Number(2), new_string("a")>>
    /\ vm.stack = <<>>

(***************************************************************************)
(* rlox-scanner, scanner.rs.  A ScannerIterator it is { source, start,      *)
(* current, line }, source being the bytes of a &str.  A ScanResult is an   *)
(* item: Ok(SourceToken { token, lexeme, line }), with the f64 of a Number  *)
(* token in value, or Err(ScannerError { error, start, current, line }),    *)
(* with the byte of an UnknownCharacter in byte.  An operation that moves   *)
(* the cursor returns the iterator it leaves in .it.                        *)
(***************************************************************************)
\* Scanner::tokens
tokens(source) == [source |-> source, start |-> 0, current |-> 0, line |-> 1]

NoItem ==
    [ok |-> FALSE, token |-> "", lexeme |-> <<>>, value |-> Nil, line |-> 0,
     error |-> "", byte |-> 0, start |-> 0, current |-> 0]

\* std::str::from_utf8(bs).is_ok(), for code points of one and two bytes
RECURSIVE Utf8Valid(_)
Utf8Valid(bs) ==
    IF bs = <<>> THEN TRUE
    ELSE IF bs[1] < 128 THEN Utf8Valid(Tail(bs))
    ELSE IF bs[1] \in 194..223 /\ Len(bs) >= 2 /\ bs[2] \in 128..191
    THEN Utf8Valid(Tail(Tail(bs)))
    ELSE FALSE

\* ScannerIterator::is_at_end
is_at_end(it) == it.current >= Len(it.source)

\* is_past_end gone wrong: the end of the source is the end of the iteration
is_past_end_at_end(it) == it.current >= Len(it.source)

\* ScannerIterator::is_past_end
is_past_end(it) == it.current > Len(it.source)

\* ScannerIterator::error
error(it, e, byte) ==
    [NoItem EXCEPT !.error = e, !.byte = byte, !.start = it.start,
                   !.current = it.current, !.line = it.line]

\* ScannerIterator::slice_source: the bytes of source[first..last], or the Utf8Error
slice_source(it, first, last) ==
    Bind(SubSeq(it.source, first + 1, last), LAMBDA bs :
        IF Utf8Valid(bs) THEN [ok |-> TRUE, str |-> bs, err |-> NoItem]
        ELSE [ok |-> FALSE, str |-> <<>>, err |-> error(it, "Utf8Error", 0)])

\* ScannerIterator::token, for a token that carries value
token_of(it, tok, value) ==
    Bind(slice_source(it, it.start, it.current), LAMBDA lexeme :
        IF ~lexeme.ok THEN [it |-> it, item |-> lexeme.err]
        ELSE [it |-> it,
              item |-> [NoItem EXCEPT !.ok = TRUE, !.token = tok, !.lexeme = lexeme.str,
                                      !.value = value, !.line = it.line]])

\* ScannerIterator::token
token(it, tok) == token_of(it, tok, Nil)

\* ScannerIterator::peek
scanner_peek(it) == IF is_at_end(it) THEN 0 ELSE it.source[it.current + 1]

\* ScannerIterator::peek_next
peek_next(it) ==
    IF it.current + 1 >= Len(it.source) THEN 0 ELSE it.source[it.current + 2]

\* ScannerIterator::advance: the byte it returns is the one at the old cursor
advance(it) == [it EXCEPT !.current = @ + 1]

\* ScannerIterator::expect
expect(it, expected) ==
    IF is_at_end(it) THEN [it |-> it, found |-> FALSE]
    ELSE IF it.source[it.current + 1] # expected THEN [it |-> it, found |-> FALSE]
    ELSE [it |-> advance(it), found |-> TRUE]

is_digit(v) == v \in 48..57

is_alpha(v) == v \in 65..90 \/ v = 95 \/ v \in 97..122

is_alphanumeric(v) == is_alpha(v) \/ is_digit(v)

\* the table of identifier_to_keyword, the words as bytes
Keywords ==
    {[word |-> <<97, 110, 100>>, token |-> "And"],
     [word |-> <<99, 108, 97, 115, 115>>, token |-> "Class"],
     [word |-> <<101, 108, 115, 101>>, token |-> "Else"],
     [word |-> <<102, 97, 108, 115, 101>>, token |-> "False"],
     [word |-> <<102, 111, 114>>, token |-> "For"],
     [word |-> <<102, 117, 110>>, token |-> "Fun"],
     [word |-> <<105, 102>>, token |-> "If"],
     [word |-> <<110, 105, 108>>, token |-> "Nil"],
     [word |-> <<111, 114>>, token |-> "Or"],
     [word |-> <<112, 114, 105, 110, 116>>, token |-> "Print"],
     [word |-> <<114, 101, 116, 117, 114, 110>>, token |-> "Return"],
     [word |-> <<115, 117, 112, 101, 114>>, token |-> "Super"],
     [word |-> <<116, 104, 105, 115>>, token |-> "This"],
     [word |-> <<116, 114, 117, 101>>, token |-> "True"],
     [word |-> <<118, 97, 114>>, token |-> "Var"],
     [word |-> <<119, 104, 105, 108, 101>>, token |-> "While"]}

\* identifier_to_keyword: Option<Token>
identifier_to_keyword(word) ==
    IF \E k \in Keywords : k.word = word
    THEN [some |-> TRUE, token |-> (CHOOSE k \in Keywords : k.word = word).token]
    ELSE [some |-> FALSE, token |-> ""]

\* while self.peek() != 0x0A && !self.is_at_end() { self.advance(); }
RECURSIVE skip_comment(_)
skip_comment(it) ==
    IF scanner_peek(it) # 10 /\ ~is_at_end(it) THEN skip_comment(advance(it)) ELSE it

\* the loop of string: up to the closing quote or the end, counting the lines
RECURSIVE skip_string(_)
skip_string(it) ==
    IF scanner_peek(it) # 34 /\ ~is_at_end(it)
    THEN skip_string(advance([it EXCEPT !.line = IF scanner_peek(it) = 10 THEN @ + 1 ELSE @]))
    ELSE it

\* while is_digit(self.peek()) { self.advance(); }
RECURSIVE skip_digits(_)
skip_digits(it) == IF is_digit(scanner_peek(it)) THEN skip_digits(advance(it)) ELSE it

\* while is_alphanumeric(self.peek()) { self.advance(); }
RECURSIVE skip_alphanumeric(_)
skip_alphanumeric(it) ==
    IF is_alphanumeric(scanner_peek(it)) THEN skip_alphanumeric(advance(it)) ELSE it

\* ScannerIterator::string, the opening quote consumed
string(it) ==
    Bind(skip_string(it), LAMBDA a :
        IF is_at_end(a) THEN [it |-> a, item |-> error(a, "UnterminatedString", 0)]
        ELSE Bind(advance(a), LAMBDA b :
            Bind(slice_source(b, b.start + 1, b.current - 1), LAMBDA value :
                IF ~value.ok THEN [it |-> b, item |-> value.err]
                ELSE token_of(b, "String", new_string(value.str)))))

\* the digits of a lexeme read as one decimal integer, the point left out
RECURSIVE DecimalDigits(_, _)
DecimalDigits(bs, acc) ==
    IF bs = <<>> THEN acc
    ELSE IF bs[1] = 46 THEN DecimalDigits(Tail(bs), acc)
    ELSE DecimalDigits(Tail(bs), acc * 10 + (bs[1] - 48))

\* the number of digits after the point
FractionDigits(bs) ==
    IF \E i \in 1..Len(bs) : bs[i] = 46
    THEN Len(bs) - (CHOOSE i \in 1..Len(bs) : bs[i] = 46)
    ELSE 0

\* str::parse::<f64> of digits with at most one point among them
parse_f64(bs) ==
    IF DecimalDigits(bs, 0) = 0 THEN Number(0)
    ELSE Ratio(DecimalDigits(bs, 0), 10 ^ FractionDigits(bs))

\* ScannerIterator::number, the first digit consumed
number(it) ==
    Bind(skip_digits(it), LAMBDA a :
        Bind(IF scanner_peek(a) = 46 /\ is_digit(peek_next(a))
             THEN skip_digits(advance(a)) ELSE a, LAMBDA b :
            Bind(slice_source(b, b.start, b.current), LAMBDA str_value :
                IF ~str_value.ok THEN [it |-> b, item |-> str_value.err]
                ELSE token_of(b, "Number", parse_f64(str_value.str)))))

\* ScannerIterator::identifier, the first byte consumed
identifier(it) ==
    Bind(skip_alphanumeric(it), LAMBDA a :
        Bind(slice_source(a, a.start, a.current), LAMBDA value :
            IF ~value.ok THEN [it |-> a, item |-> value.err]
            ELSE IF identifier_to_keyword(value.str).some
            THEN token(a, identifier_to_keyword(value.str).token)
            ELSE token_of(a, "Identifier", new_string(value.str))))

\* a one-byte token, or the two-byte one when = follows
with_equal(it, two, one) ==
    Bind(expect(it, 61), LAMBDA e : IF e.found THEN token(e.it, two) ELSE token(e.it, one))

\* the match of scan_token on the byte c that advance returned, a the iterator after it
scan_byte(a, c) ==
    CASE c = 40 -> token(a, "LeftParen")
      [] c = 41 -> token(a, "RightParen")
      [] c = 123 -> token(a, "LeftBrace")
      [] c = 125 -> token(a, "RightBrace")
      [] c = 44 -> token(a, "Comma")
      [] c = 46 -> token(a, "Dot")
      [] c = 45 -> token(a, "Minus")
      [] c = 43 -> token(a, "Plus")
      [] c = 59 -> token(a, "Semicolon")
      [] c = 42 -> token(a, "Star")
      [] c = 33 -> with_equal(a, "BangEqual", "Bang")
      [] c = 61 -> with_equal(a, "EqualEqual", "Equal")
      [] c = 60 -> with_equal(a, "LessEqual", "Less")
      [] c = 62 -> with_equal(a, "GreaterEqual", "Greater")
      [] c = 47 ->
            Bind(expect(a, 47), LAMBDA e :
                IF e.found THEN token(skip_comment(e.it), "Comment")
                ELSE token(e.it, "Slash"))
      [] c \in {9, 13, 32} -> token(a, "Whitespace")
      [] c = 10 ->
            Bind(token(a, "NewLine"), LAMBDA t :
                [it |-> [a EXCEPT !.line = @ + 1], item |-> t.item])
      [] c = 34 -> string(a)
      [] is_digit(c) -> number(a)
      [] is_alpha(c) -> identifier(a)
      [] OTHER -> [it |-> a, item |-> error(a, "UnknownCharacter", c)]

\* ScannerIterator::scan_token
scan_token(it) ==
    IF is_at_end(it)
    THEN [it |-> [it EXCEPT !.current = @ + 1], item |-> token(it, "Eof").item]
    ELSE scan_byte(advance(it), it.source[it.current + 1])

\* Iterator::next for ScannerIterator: Option<ScanResult>
next(it) ==
    IF is_past_end(it) THEN [it |-> it, some |-> FALSE, item |-> NoItem]
    ELSE Bind(scan_token([it EXCEPT !.start = it.current]), LAMBDA r :
            [it |-> r.it, some |-> TRUE, item |-> r.item])

(***************************************************************************)
(* SpecScan: Scanner::new(source).tokens() iterated to its end and past it. *)
(***************************************************************************)
\* a source has at most this many characters
MaxChars == 2

\* next is called at most this many times after it has returned None
MaxNones == 2

\* the characters of the sources, as their UTF-8 bytes:  @ " / newline 1 . o r = e-acute
SourceChars ==
    {<<64>>, <<34>>, <<47>>, <<10>>, <<49>>, <<46>>, <<111>>, <<114>>, <<61>>, <<195, 169>>}

RECURSIVE Sources(_)
Sources(n) ==
    IF n = 0 THEN {<<>>}
    ELSE Sources(n - 1) \cup {src \o ch : src \in Sources(n - 1), ch \in SourceChars}

\* the sources scanned
AllSources == Sources(MaxChars)

\* what stands for an item in the history: the token, or the error of an Err
Tag(item) == IF item.ok THEN item.token ELSE item.error

\* scanner holds the source, the iterator it, the Option next returned last (some, item), and as
\* history the tags of the items yielded, the number of times None was returned, and
\* the cursor before the last call
InitScan ==
    /\ interp = NoInterp
    /\ pc = "source"
    /\ op = NoOp
    /\ bytes = <<>>
    /\ decoded = NoDecoded
    /\ chunk = EmptyChunk
    /\ adds = <<>>
    /\ call = NoCall
    /\ seed = 0
    /\ program = NoProgram
    /\ compiler = NoCompiler
    /\ vm = NoVM
    /\ scanner = [source |-> <<>>, it |-> tokens(<<>>), some |-> FALSE, item |-> NoItem,
                  yielded |-> <<>>, nones |-> 0, prev |-> 0]

\* Scanner::new(source).tokens()
ScanTokens ==
    /\ pc = "source"
    /\ \E source \in AllSources :
        scanner' = [scanner EXCEPT !.source = source, !.it = tokens(source)]
    /\ pc' = "scan"
    /\ UNCHANGED <<interp, op, bytes, decoded, chunk, adds, call, seed, program, compiler, vm>>

\* iterator.next()
ScanNext ==
    /\ pc = "scan"
    /\ scanner.nones < MaxNones
    /\ Len(scanner.yielded) <= Len(scanner.source) + 1
    /\ \E r \in {next(scanner.it)} :
        scanner' = [scanner EXCEPT
                        !.it = r.it, !.some = r.some, !.item = r.item,
                        !.yielded = IF r.some THEN Append(@, Tag(r.item)) ELSE @,
                        !.nones = IF r.some THEN @ ELSE @ + 1,
                        !.prev = scanner.it.current]
    /\ UNCHANGED <<interp, pc, op, bytes, decoded, chunk, adds, call, seed, program, compiler, vm>>

NextScan == ScanTokens \/ ScanNext

SpecScan == InitScan /\ [][NextScan]_vars

\* the caller goes on calling next
SpecScanFair == SpecScan /\ WF_vars(NextScan)

\* every item moved the cursor on; an error is an item after which the iteration goes
\* on; Eof is yielded once, as the last item; None comes after Eof, and again after None
ScanSafe ==
    pc = "scan" =>
    /\ scanner.some => scanner.it.current > scanner.prev
    /\ scanner.it.current <= Len(scanner.source) + 1
    /\ \A i \in 1..Len(scanner.yielded) :
            scanner.yielded[i] = "Eof" => i = Len(scanner.yielded)
    /\ (scanner.some /\ ~scanner.item.ok) => ~is_past_end(scanner.it)
    /\ (scanner.some /\ scanner.item.ok /\ scanner.item.token = "Eof") =>
            is_past_end(scanner.it)
    /\ scanner.nones > 0 =>
            /\ ~scanner.some
            /\ scanner.yielded # <<>>
            /\ scanner.yielded[Len(scanner.yielded)] = "Eof"
            /\ scanner.it.current = scanner.prev

\* C20: iterating tokens() over any source comes to an end: every step moves the
\* cursor by at least one byte, scan errors are yielded as items that do not stop the
\* iteration, one Eof is yielded, as the last item, and every later next() is None
ScannerTerminates == [](ScanSafe) /\ <>(scanner.nones = MaxNones)

\* on the source  "o  the unterminated string was yielded as an error, then Eof, and
\* then None every time
ScanWitness ==
    /\ scanner.source = <<34, 111>>
    /\ scanner.yielded = <<"UnterminatedString", "Eof">>
    /\ scanner.nones = MaxNones
    /\ scanner.it.current = 3

(***************************************************************************)
(* rlox-interpreter, interpreter.rs.  The Environments allocated are the     *)
(* sequence envs, an Rc<RefCell<Environment>> being a position in it; an      *)
(* Environment is { parent, values }, parent 0 standing for None.  An         *)
(* interpreter in is { envs, environment, global_environment }.              *)
(***************************************************************************)
\* Environment::new
Environment == [parent |-> 0, values |-> <<>>]

\* Environment::new_with_parent
new_with_parent(parent) == [parent |-> parent, values |-> <<>>]

\* Value::Function of the native function clock
Clock == [t |-> "Function", s |-> "<native fn>"]

\* Interpreter::new: the globals hold the native functions; frames holds, for each
\* call of evaluate_block in progress, the innermost last, its local `environment`
\* (and, as history, what the interpreter held when the call was made)
NewInterpreter ==
    [envs |-> <<[Environment EXCEPT !.values = "clock" :> Clock]>>,
     environment |-> 1, global_environment |-> 1, frames |-> <<>>]

\* the environments enclosing the one at e, e first, the globals last
RECURSIVE Enclosing(_, _)
Enclosing(envs, e) ==
    IF e = 0 THEN <<>> ELSE <<e>> \o Enclosing(envs, envs[e].parent)

\* history only: the current environment of in, the environments that enclose it and
\* the names each of them defines
Entry(in) ==
    [environment |-> in.environment,
     chain |-> Enclosing(in.envs, in.environment),
     names |-> [i \in 1..Len(Enclosing(in.envs, in.environment)) |->
                    DOMAIN in.envs[Enclosing(in.envs, in.environment)[i]].values]]

\* the Stmt::Block arm up to the loop of evaluate_block: a new environment whose parent
\* is the current one is made, and the first swap makes it the current one and
\* leaves the one of before in the local `environment`
enter_block(in) ==
    [in EXCEPT !.envs = Append(@, new_with_parent(in.environment)),
               !.environment = Len(in.envs) + 1,
               !.frames = Append(@, [environment |-> in.environment, entry |-> Entry(in)])]

\* evaluate_block gone wrong: an Err is returned without the swap
leave_block_unless_err(in, outcome) ==
    IF outcome = "failed"
    THEN [in EXCEPT !.frames = SubSeq(@, 1, Len(@) - 1)]
    ELSE [in EXCEPT !.environment = in.frames[Len(in.frames)].environment,
                    !.frames = SubSeq(@, 1, Len(@) - 1),
                    !.envs = SubSeq(@, 1, Len(@) - 1)]

\* the end of evaluate_block, after the loop, after the break on a Return or in the
\* Err arm: the swap makes the local `environment` the current one again, and the
\* block's environment goes with the local
leave_block(in, outcome) ==
    [in EXCEPT !.environment = in.frames[Len(in.frames)].environment,
               !.frames = SubSeq(@, 1, Len(@) - 1),
               !.envs = SubSeq(@, 1, Len(@) - 1)]

\* EvaluateResult of the operations on an environment: the environments they leave
EnvOk(envs, value) == [ok |-> TRUE, envs |-> envs, value |-> value, err |-> ""]

EnvErr(envs, e) == [ok |-> FALSE, envs |-> envs, value |-> Nil, err |-> e]

\* Environment::get on the environment at e
RECURSIVE env_get(_, _, _)
env_get(envs, e, name) ==
    IF name \in DOMAIN envs[e].values THEN EnvOk(envs, envs[e].values[name])
    ELSE IF envs[e].parent # 0 THEN env_get(envs, envs[e].parent, name)
    ELSE EnvErr(envs, "UndefinedVariable")

\* Environment::define on the environment at e
env_define(envs, e, name, value) ==
    [envs EXCEPT ![e].values = (name :> value) @@ @]

\* Environment::assign gone wrong: a name that is not there is defined where the
\* chain ends
RECURSIVE env_assign_or_define(_, _, _, _)
env_assign_or_define(envs, e, name, value) ==
    IF name \in DOMAIN envs[e].values
    THEN EnvOk([envs EXCEPT ![e].values = (name :> value) @@ @], Nil)
    ELSE IF envs[e].parent # 0 THEN env_assign_or_define(envs, envs[e].parent, name, value)
    ELSE EnvOk([envs EXCEPT ![e].values = (name :> value) @@ @], Nil)

\* Environment::assign on the environment at e
RECURSIVE env_assign(_, _, _, _)
env_assign(envs, e, name, value) ==
    IF name \in DOMAIN envs[e].values
    THEN EnvOk([envs EXCEPT ![e].values = (name :> value) @@ @], Nil)
    ELSE IF envs[e].parent # 0 THEN env_assign(envs, envs[e].parent, name, value)
    ELSE EnvErr(envs, "UndefinedVariable")

\* the Expr::Assign arm of evaluate, the right-hand side evaluated to value
evaluate_assign(in, name, value) ==
    Bind(env_assign(in.envs, in.environment, name, value), LAMBDA r :
        IF r.ok THEN EnvOk(r.envs, value) ELSE r)

\* the While arm of the interpreter is followed through this many runs of its body
MaxIterations == 4

\* Value::is_truthy of the interpreter's Value
value_is_truthy(v) ==
    CASE v.t = "Nil" -> FALSE
      [] v.t = "Boolean" -> v.b
      [] OTHER -> TRUE

\* Value::is_equal of the interpreter's Value; a Function is equal to itself
value_is_equal(l, r) ==
    CASE l.t = "Nil" /\ r.t = "Nil" -> TRUE
      [] l.t = "Boolean" /\ r.t = "Boolean" -> l.b = r.b
      [] l.t = "Number" /\ r.t = "Number" -> f64_eq(l, r)
      [] l.t = "String" /\ r.t = "String" -> l.s = r.s
      [] l.t = "Function" /\ r.t = "Function" -> l.s = r.s
      [] OTHER -> FALSE

\* impl Display for the interpreter's Value
value_to_string(v) ==
    CASE v.t = "Nil" -> "nil"
      [] v.t = "Boolean" -> IF v.b THEN "true" ELSE "false"
      [] v.t = "Number" -> f64_to_string(v)
      [] OTHER -> v.s

\* EvaluateResult<Value> of evaluate, with the interpreter it leaves
Evaluated(in, value) == [ok |-> TRUE, in |-> in, value |-> value, err |-> ""]

Raised(in, e) == [ok |-> FALSE, in |-> in, value |-> Nil, err |-> e]

\* the arms of Expr::Binary, both operands evaluated; cast_to_number is applied to
\* the left operand first
evaluate_binary(in, tok, left, right) ==
    IF tok = "Plus" THEN
        IF IsNumber(left) /\ IsNumber(right) THEN Evaluated(in, f64_add(left, right))
        ELSE IF IsString(left)
        THEN Evaluated(in, new_string(left.s \o value_to_string(right)))
        ELSE IF IsString(right)
        THEN Evaluated(in, new_string(value_to_string(left) \o right.s))
        ELSE Raised(in, "InvalidAdditionArguments")
    ELSE IF tok = "BangEqual" THEN Evaluated(in, Boolean(~value_is_equal(left, right)))
    ELSE IF tok = "EqualEqual" THEN Evaluated(in, Boolean(value_is_equal(left, right)))
    ELSE IF ~IsNumber(left) \/ ~IsNumber(right) THEN Raised(in, "ExpectedNumber")
    ELSE CASE tok = "Minus" -> Evaluated(in, f64_add(left, f64_neg(right)))
           [] tok = "Star" -> Evaluated(in, f64_mul(left, right))
           [] tok = "Slash" ->
                IF f64_eq(right, Number(0)) THEN Raised(in, "DivideByZero")
                ELSE Evaluated(in, f64_div(left, right))
           [] tok = "Greater" -> Evaluated(in, Boolean(f64_lt(right, left)))
           [] tok = "GreaterEqual" ->
                Evaluated(in, Boolean(f64_lt(right, left) \/ f64_eq(left, right)))
           [] tok = "Less" -> Evaluated(in, Boolean(f64_lt(left, right)))
           [] tok = "LessEqual" ->
                Evaluated(in, Boolean(f64_lt(left, right) \/ f64_eq(left, right)))
           [] OTHER -> Raised(in, "panic")

\* expression.rs evaluate
RECURSIVE evaluate(_, _)
evaluate(in, e) ==
    CASE e.k = "Expr::Nil" -> Evaluated(in, Nil)
      [] e.k = "Expr::Boolean" -> Evaluated(in, Boolean(e.bool))
      [] e.k = "Expr::Number" -> Evaluated(in, Number(e.num))
      [] e.k = "Expr::String" -> Evaluated(in, new_string(e.str))
      [] e.k = "Expr::Var" ->
            Bind(env_get(in.envs, in.environment, e.name), LAMBDA r :
                IF r.ok THEN Evaluated(in, r.value) ELSE Raised(in, r.err))
      [] e.k = "Expr::Grouping" -> evaluate(in, e.kids[1])
      [] e.k = "Expr::Unary" ->
            Bind(evaluate(in, e.kids[1]), LAMBDA r :
                IF ~r.ok THEN r
                ELSE IF e.tok = "Minus" THEN
                    IF IsNumber(r.value) THEN Evaluated(r.in, f64_neg(r.value))
                    ELSE Raised(r.in, "ExpectedNumber")
                ELSE IF e.tok = "Bang"
                THEN Evaluated(r.in, Boolean(~value_is_truthy(r.value)))
                ELSE Raised(r.in, "panic"))
      [] e.k = "Expr::Logical" ->
            Bind(evaluate(in, e.kids[1]), LAMBDA left :
                IF ~left.ok THEN left
                ELSE IF e.tok = "Or" THEN
                    IF value_is_truthy(left.value) THEN left
                    ELSE evaluate(left.in, e.kids[2])
                ELSE IF e.tok = "And" THEN
                    IF ~value_is_truthy(left.value) THEN left
                    ELSE evaluate(left.in, e.kids[2])
                ELSE Raised(left.in, "panic"))
      [] e.k = "Expr::Binary" ->
            Bind(evaluate(in, e.kids[1]), LAMBDA left :
                IF ~left.ok THEN left
                ELSE Bind(evaluate(left.in, e.kids[2]), LAMBDA right :
                    IF ~right.ok THEN right
                    ELSE evaluate_binary(right.in, e.tok, left.value, right.value)))
      [] e.k = "Expr::Assign" ->
            Bind(evaluate(in, e.kids[1]), LAMBDA r :
                IF ~r.ok THEN r
                ELSE Bind(evaluate_assign(r.in, e.name, r.value), LAMBDA a :
                    IF a.ok THEN Evaluated([r.in EXCEPT !.envs = a.envs], a.value)
                    ELSE Raised(r.in, a.err)))

\* the interpreter with the lines its print statements write and the error that
\* ended the interpretation ("" while there is none)
NewSession == NewInterpreter @@ [output |-> <<>>, err |-> ""]

\* `evaluate(self, expr)?` in a statement: the interpreter after it, failed or not
Try(r) == IF r.ok THEN r.in ELSE [r.in EXCEPT !.err = r.err]

\* Interpreter::evaluate_stmt, and the loops of evaluate_block and of the While arm.
\* The While arm gives up, with err "cut", once its body has run `more` times.
RECURSIVE evaluate_stmt(_, _), evaluate_statements(_, _), evaluate_while(_, _, _)
evaluate_stmt(in, stmt) ==
    CASE stmt.k = "Stmt::Expression" -> Try(evaluate(in, stmt.kids[1]))
      [] stmt.k = "Stmt::If" ->
            Bind(evaluate(in, stmt.kids[1]), LAMBDA cond :
                IF ~cond.ok THEN Try(cond)
                ELSE IF value_is_truthy(cond.value) THEN evaluate_stmt(cond.in, stmt.kids[2])
                ELSE IF Len(stmt.kids) = 3 THEN evaluate_stmt(cond.in, stmt.kids[3])
                ELSE cond.in)
      [] stmt.k = "Stmt::Print" ->
            Bind(evaluate(in, stmt.kids[1]), LAMBDA r :
                IF ~r.ok THEN Try(r)
                ELSE [r.in EXCEPT !.output = Append(@, value_to_string(r.value))])
      [] stmt.k = "Stmt::Var" ->
            Bind(IF stmt.kids = <<>> THEN Evaluated(in, Nil) ELSE evaluate(in, stmt.kids[1]),
                 LAMBDA r :
                    IF ~r.ok THEN Try(r)
                    ELSE [r.in EXCEPT
                            !.envs = env_define(@, r.in.environment, stmt.name, r.value)])
      [] stmt.k = "Stmt::While" -> evaluate_while(in, stmt, MaxIterations)
      [] stmt.k = "Stmt::Block" ->
            Bind(evaluate_statements(enter_block(in), stmt.kids), LAMBDA done :
                leave_block(done, IF done.err = "" THEN "interpret" ELSE "failed"))

evaluate_statements(in, statements) ==
    IF statements = <<>> \/ in.err # "" THEN in
    ELSE evaluate_statements(evaluate_stmt(in, Head(statements)), Tail(statements))

evaluate_while(in, stmt, more) ==
    Bind(evaluate(in, stmt.kids[1]), LAMBDA cond :
        IF ~cond.ok THEN Try(cond)
        ELSE IF ~value_is_truthy(cond.value) THEN cond.in
        ELSE IF more = 0 THEN [cond.in EXCEPT !.err = "cut"]
        ELSE Bind(evaluate_stmt(cond.in, stmt.kids[2]), LAMBDA done :
                IF done.err # "" THEN done ELSE evaluate_while(done, stmt, more - 1)))

\* Interpreter::interpret
interpret(in, statements) == evaluate_statements(in, statements)

(***************************************************************************)
(* SpecEnv: an interpreter taken through declarations, assignments and the  *)
(* entry and exit of blocks.                                                *)
(***************************************************************************)
\* blocks are nested at most this deep
MaxBlocks == 2

\* the names declared and assigned, and the values given to them
EnvNames == {"a", "b"}

EnvValues == {Nil, Number(1)}

InitEnv ==
    /\ pc = "interpret"
    /\ op = NoOp
    /\ bytes = <<>>
    /\ decoded = NoDecoded
    /\ chunk = EmptyChunk
    /\ adds = <<>>
    /\ call = NoCall
    /\ seed = 0
    /\ program = NoProgram
    /\ compiler = NoCompiler
    /\ vm = NoVM
    /\ scanner = NoScanner
    /\ interp = NewInterpreter

\* Stmt::Block, up to the first statement: evaluate_block makes the new environment
\* the current one
EnvEnterBlock ==
    /\ pc = "interpret"
    /\ Len(interp.envs) <= MaxBlocks
    /\ interp' = enter_block(interp)
    /\ call' = [fn |-> "block", before |-> interp]
    /\ UNCHANGED <<pc, op, bytes, decoded, chunk, adds, seed, program, compiler, vm, scanner>>

\* Stmt::Return in a block: evaluate_stmt returns Ok(StmtResult::Return(value))
EnvReturn ==
    /\ pc = "interpret"
    /\ interp.frames # <<>>
    /\ pc' = "returning"
    /\ call' = [fn |-> "return", before |-> interp]
    /\ UNCHANGED <<interp, op, bytes, decoded, chunk, adds, seed, program, compiler, vm,
                   scanner>>

\* the end of the innermost evaluate_block in progress: at the end of its statements,
\* at the break on a Return result, or in the Err arm.  The enclosing block's loop
\* receives the same Return or Err; the loop of interpret goes on after a Return.
EnvLeaveBlock ==
    /\ pc \in {"interpret", "returning", "failed"}
    /\ interp.frames # <<>>
    /\ interp' = leave_block(interp, pc)
    /\ call' = [fn |-> "end of block", before |-> interp, outcome |-> pc,
                entry |-> interp.frames[Len(interp.frames)].entry]
    /\ pc' = IF pc = "returning" /\ Len(interp.frames) = 1 THEN "interpret" ELSE pc
    /\ UNCHANGED <<op, bytes, decoded, chunk, adds, seed, program, compiler, vm, scanner>>

\* Stmt::Var with a literal initializer
EnvDefine ==
    /\ pc = "interpret"
    /\ \E name \in EnvNames, value \in EnvValues :
        /\ interp' = [interp EXCEPT !.envs = env_define(@, interp.environment, name, value)]
        /\ call' = [fn |-> "define", name |-> name, value |-> value, before |-> interp]
    /\ UNCHANGED <<pc, op, bytes, decoded, chunk, adds, seed, program, compiler, vm, scanner>>

\* evaluate of Expr::Assign(name, literal); an Err ends the interpretation
EnvAssign ==
    /\ pc = "interpret"
    /\ \E name \in EnvNames, value \in EnvValues :
        \E r \in {evaluate_assign(interp, name, value)} :
        /\ interp' = [interp EXCEPT !.envs = r.envs]
        /\ call' = [fn |-> "assign", name |-> name, value |-> value, before |-> interp,
                    ok |-> r.ok, result |-> r.value, err |-> r.err]
        /\ pc' = IF r.ok THEN pc ELSE "failed"
    /\ UNCHANGED <<op, bytes, decoded, chunk, adds, seed, program, compiler, vm, scanner>>

NextEnv == EnvEnterBlock \/ EnvReturn \/ EnvLeaveBlock \/ EnvDefine \/ EnvAssign

SpecEnv == InitEnv /\ [][NextEnv]_vars

\* the places in Enclosing(envs, e) of the environments that define name
Defining(envs, e, name) ==
    {i \in 1..Len(Enclosing(envs, e)) : name \in DOMAIN envs[Enclosing(envs, e)[i]].values}

\* the nearest environment enclosing e that defines name
Nearest(envs, e, name) ==
    Enclosing(envs, e)[CHOOSE i \in Defining(envs, e, name) :
                            \A j \in Defining(envs, e, name) : i <= j]

\* C21: an assignment replaces the binding in the nearest enclosing environment that
\* defines the name, leaves every other environment as it was, and evaluates to the
\* value assigned; when no enclosing environment defines the name it fails with
\* UndefinedVariable and changes no environment
AssignReplacesNearestBinding ==
    call.fn = "assign" =>
        IF Defining(call.before.envs, call.before.environment, call.name) # {}
        THEN /\ call.ok
             /\ call.result = call.value
             /\ Len(interp.envs) = Len(call.before.envs)
             /\ \A e \in 1..Len(interp.envs) :
                    IF e = Nearest(call.before.envs, call.before.environment, call.name)
                    THEN /\ interp.envs[e].parent = call.before.envs[e].parent
                         /\ DOMAIN interp.envs[e].values = DOMAIN call.before.envs[e].values
                         /\ \A k \in DOMAIN interp.envs[e].values :
                                interp.envs[e].values[k] =
                                    IF k = call.name THEN call.value
                                    ELSE call.before.envs[e].values[k]
                    ELSE interp.envs[e] = call.before.envs[e]
        ELSE /\ ~call.ok
             /\ call.err = "UndefinedVariable"
             /\ pc = "failed"
             /\ interp = call.before

\* a was assigned from the innermost of two blocks: the outer block's a was replaced,
\* the global a kept its value
AssignWitness ==
    /\ call.fn = "assign"
    /\ call.name = "a"
    /\ call.value = Number(1)
    /\ call.ok
    /\ Len(interp.envs) = 3
    /\ interp.environment = 3
    /\ interp.envs[3].values = <<>>
    /\ interp.envs[2].values = "a" :> Number(1)
    /\ call.before.envs[2].values = "a" :> Nil
    /\ "a" \in DOMAIN interp.envs[1].values
    /\ interp.envs[1].values["a"] = Nil

\* a call of evaluate_block has ended
BlockEnded == call.fn = "end of block"

\* C37: when evaluate_block has ended, by the end of its statements, by a Return
\* result or by a runtime error, also when it ends within another block, the current
\* environment is the one of before the call, it is enclosed by the environments
\* that enclosed it then, and each of these defines the names it defined then, so no
\* binding made in the block is in sight
BlockRestoresEnvironment ==
    BlockEnded =>
        /\ interp.environment = call.entry.environment
        /\ Entry(interp) = call.entry
        /\ call.before.environment \notin
                {Enclosing(interp.envs, interp.environment)[i] :
                    i \in 1..Len(Enclosing(interp.envs, interp.environment))}

\* a runtime error in a block within a block has ended the inner block, and the
\* inner block had defined a name that is defined nowhere else
BlockErrWitness ==
    /\ BlockEnded
    /\ call.outcome = "failed"
    /\ Len(call.before.frames) = 2
    /\ "a" \in DOMAIN call.before.envs[call.before.environment].values
    /\ \A i \in 1..Len(call.entry.names) : "a" \notin call.entry.names[i]

(***************************************************************************)
(* SpecJump: the If and While arms of compile_stmt, taken up once the      *)
(* condition, the placeholder jumps, the Pop and a body of some length     *)
(* have been compiled, at the point where the jump over the body is        *)
(* resolved or the loop is closed; then the VM executes that jump.         *)
(***************************************************************************)
\* the distances tried lie this far on either side of 2^15 and 2^16
JumpSlack == 2

\* the lengths in bytes of the body: short ones, and the ones that bring the distance
\* of the jump close to where 15 and 16 bits no longer hold it
BodyLengths ==
    {n \in 0..(2 * JumpSlack + 2) : n # 1}
        \cup ((32768 - 8 - JumpSlack)..(32768 + JumpSlack))
        \cup ((65536 - 8 - JumpSlack)..(65536 + JumpSlack))

\* the code of a body of n bytes: `!nil;` when n is odd, then `nil;` over and over
Body(n) ==
    [i \in 1..n |->
        IF n % 2 = 1 /\ i <= 3 THEN <<OP_NIL, OP_NOT, OP_POP>>[i]
        ELSE IF (n - i) % 2 = 1 THEN OP_NIL ELSE OP_POP]

\* the compiler once a body of n bytes, each an instruction, has been compiled
Compiled(cs, n) ==
    [cs EXCEPT !.chunk.code = @ \o Body(n),
               !.chunk.lines =
                    [offset \in chunk_len(cs.chunk)..(chunk_len(cs.chunk) + n - 1) |-> 0] @@ @]

\* `if (false) body`, up to the end of the body: the JumpIfFalse is to be resolved,
\* and the VM will come to it with the condition on the stack
OpenIf(cs, n) ==
    Bind(jump(compile_expr(cs, EBoolean(1, FALSE)), "JumpIfFalse"), LAMBDA false_jump :
        [cs |-> Compiled(Emit(false_jump.cs, Op("Pop", 0), 0), n),
         kind |-> "Stmt::If", ref |-> false_jump.ref, loop |-> loop_start(cs),
         stack |-> <<Boolean(FALSE)>>])

\* `if (true) {} else body`, up to the end of the body: the Jump that ends the
\* then-branch is to be resolved, and the VM will come to it with the condition popped
OpenElse(cs, n) ==
    Bind(jump(compile_expr(cs, EBoolean(1, TRUE)), "JumpIfFalse"), LAMBDA false_jump :
    Bind(jump(Emit(false_jump.cs, Op("Pop", 0), 0), "Jump"), LAMBDA true_jump :
        [cs |-> Compiled(Emit(resolve_jump(true_jump.cs, false_jump.ref),
                              Op("Pop", 0), 0), n),
         kind |-> "else", ref |-> true_jump.ref, loop |-> loop_start(cs),
         stack |-> <<>>]))

\* `while (true) body`, up to the end of the body: the loop is to be closed, and the
\* VM will come to the backward Jump with the condition popped
OpenWhile(cs, n) ==
    Bind(jump(compile_expr(cs, EBoolean(1, TRUE)), "JumpIfFalse"), LAMBDA exit_jump :
        [cs |-> Compiled(Emit(exit_jump.cs, Op("Pop", 0), 0), n),
         kind |-> "Stmt::While", ref |-> exit_jump.ref, loop |-> loop_start(cs),
         stack |-> <<>>])

InitJump ==
    /\ pc = "body"
    /\ op = NoOp
    /\ bytes = <<>>
    /\ decoded = NoDecoded
    /\ chunk = EmptyChunk
    /\ adds = <<>>
    /\ seed \in BodyLengths
    /\ program = NoProgram
    /\ vm = NoVM
    /\ scanner = NoScanner
    /\ interp = NoInterp
    /\ \E checks \in BOOLEAN :
       \E open \in {OpenIf([NewCompiler(EmptyChunk) EXCEPT !.overflow_checks = checks], seed),
                    OpenElse([NewCompiler(EmptyChunk) EXCEPT !.overflow_checks = checks], seed),
                    OpenWhile([NewCompiler(EmptyChunk) EXCEPT !.overflow_checks = checks],
                              seed)} :
            /\ compiler = open.cs
            /\ call = [fn |-> open.kind, ref |-> open.ref, loop |-> open.loop,
                       stack |-> open.stack]

\* the end of the If arm: self.resolve_jump(&false_jump), or (&true_jump) after an else
ResolveJump ==
    /\ pc = "body"
    /\ call.fn \in {"Stmt::If", "else"}
    /\ compiler' = resolve_jump(compiler, call.ref)
    /\ pc' = "compiled"
    /\ UNCHANGED <<interp, scanner, op, bytes, decoded, chunk, adds, call, seed, program, vm>>

\* the end of the While arm: jump_loop, resolve_jump(&exit_jump) and the Pop
JumpLoop ==
    /\ pc = "body"
    /\ call.fn = "Stmt::While"
    /\ compiler' = Emit(resolve_jump(jump_loop(compiler, call.loop, "Jump"), call.ref),
                        Op("Pop", 0), 0)
    /\ pc' = "compiled"
    /\ UNCHANGED <<interp, scanner, op, bytes, decoded, chunk, adds, call, seed, program, vm>>

\* the offset of the jump the arm has ended with: the resolved jump, or the backward
\* Jump before the Pop that ends a While
Ended ==
    IF call.fn = "Stmt::While" THEN chunk_len(compiler.chunk) - 4 ELSE call.ref.offset

\* one iteration of the loop of VM::run, come to the jump the arm has ended with
RunJump ==
    /\ pc = "compiled"
    /\ compiler.err = ""
    /\ vm' = step(compiler.chunk,
                  [NewVM(compiler.overflow_checks) EXCEPT !.ip = Ended, !.stack = call.stack])
    /\ pc' = "jumped"
    /\ UNCHANGED <<interp, scanner, op, bytes, decoded, chunk, adds, call, seed, program,
                   compiler>>

NextJump == ResolveJump \/ JumpLoop \/ RunJump

SpecJump == InitJump /\ [][NextJump]_vars

\* the instruction the chunk holds at offset p
Held(p) == chunk_decode(compiler.chunk, p).op

\* C29: resolve_jump writes over the placeholder the variant recorded for it, with as
\* displacement the chunk length at resolution less the offset of the jump, whatever
\* that length; jump_loop stores minus the distance from the Jump back to loop_start
JumpStoresExactDistance ==
    (pc \in {"compiled", "jumped"}) =>
        /\ compiler.err = ""
        /\ call.fn \in {"Stmt::If", "else"} =>
            Held(call.ref.offset) =
                Op(call.ref.op_factory, chunk_len(compiler.chunk) - call.ref.offset)
        /\ call.fn = "Stmt::While" =>
            /\ Held(Ended) = Op("Jump", 0 - (Ended - call.loop.offset))
            /\ Held(call.ref.offset) =
                    Op("JumpIfFalse", Ended + 3 - call.ref.offset)

\* C28: in a compiled chunk no jump holds the displacement 0 of a placeholder, the
\* conditional jumps have been rewritten to JumpIfFalse, and the target the VM
\* computes for a jump is the offset of an instruction or the end of the chunk
JumpsAreResolved ==
    /\ (pc \in {"compiled", "jumped"} /\ compiler.err = "") =>
        /\ Held(call.ref.offset).name = call.ref.op_factory
        /\ Held(call.ref.offset).arg # 0
        /\ Held(Ended).name \in JumpOps
        /\ Held(Ended).arg # 0
    /\ (pc = "jumped" /\ vm.result = Running) =>
        vm.ip \in DOMAIN compiler.chunk.lines \cup {chunk_len(compiler.chunk)}

\* C35: in a chunk compiled from a program without a while statement every jump
\* holds a positive displacement, and the VM leaves a jump at an offset beyond it
ForwardJumpsAdvance ==
    (call.fn \in {"Stmt::If", "else"} /\ compiler.err = "") =>
        /\ pc \in {"compiled", "jumped"} => Held(call.ref.offset).arg > 0
        /\ (pc = "jumped" /\ vm.result = Running) => vm.ip > Ended

(***************************************************************************)
(* SpecRun again: the statements the bytecode VM has run are given to the   *)
(* tree-walking interpreter.                                               *)
(***************************************************************************)
\* s is the beginning of t
Prefix(s, t) == Len(s) <= Len(t) /\ SubSeq(t, 1, Len(s)) = s

\* what Interpreter::interpret makes of the statements of the input unit
Interpreted == interpret(NewSession, program)

\* the VM has run the whole chunk: it stopped where the chunk ends
RanToTheEnd == pc = "done" /\ vm.ip = chunk_len(chunk)

\* C38: for an input unit that compiles and does not divide by zero, the lines the VM
\* has printed and the lines the interpreter prints begin alike, the shorter being
\* the beginning of the longer; the VM prints nothing the interpreter does not
\* print when the interpreter ends without an error, and both print the same when
\* the VM has also run the whole chunk
EnginesPrintTheSame ==
    (pc \in {"run", "done"} /\ compiler.err = "" /\ Interpreted.err # "DivideByZero") =>
        /\ Prefix(vm.output, Interpreted.output) \/ Prefix(Interpreted.output, vm.output)
        /\ Interpreted.err = "" => Prefix(vm.output, Interpreted.output)
        /\ (Interpreted.err = "" /\ RanToTheEnd) => vm.output = Interpreted.output

====
